---- MODULE Spec2Model ----
(***************************************************************************)
(* Instantiation graph of the axiom profiler: the raw graph with its       *)
(* per-node visibility flag, the filters that set the flag, and the        *)
(* materialisation of the visible graph with its indirect edges.           *)
(*                                                                         *)
(* Node indices are petgraph indices (0-based).  Raw edges are kept in a   *)
(* sequence; the edge with petgraph index e is element e + 1.              *)
(***************************************************************************)
EXTENDS Integers, Sequences, FiniteSets, TLC

VARIABLES
    parser,          \* the dependency list of the fact store, never written
    orig_graph,      \* the raw graph: nodes with their visible flag, edges
    visible_graph,   \* the last materialised visible graph
    panicked,        \* TRUE once an unwrap has panicked
    fresh_graph,     \* a second graph, built anew at every reset (reference run)
    last,            \* the last operation: kind, retain flag, whether a flag changed,
                     \* what it returned and the node a path or missing-node request named
    was_reset,       \* TRUE once a reset has made hidden nodes visible again
    filters_state,   \* the sidebar's FiltersState: the filter chains and the selection
    msgs,            \* the SVGMsg messages sent to the graph and not yet handled
    stats,           \* the raw graph's stats: the generation of its flags
    generation       \* the generation field of the last materialised visible graph

vars == <<parser, orig_graph, visible_graph, panicked, fresh_graph, last, was_reset,
          filters_state, msgs, stats, generation>>

(* ---------------------------- bounds ----------------------------------- *)

\* Largest number of nodes of a raw graph built in Init.
MaxNodes == 3

\* Largest number of nodes of a raw graph in the materialisation runs.
MaxVisNodes == 4

\* Largest number of edges of a raw graph in the materialisation runs.
MaxVisEdges == 4

\* Largest number of nodes of a raw graph in the runs over node and match kinds.
MaxKindNodes == 2

\* Largest number of nodes of a raw graph in the longest-path runs.
MaxPathNodes == 4

\* Largest number of nodes of a raw graph in the sidebar runs.
MaxSidebarNodes == 2

\* Largest length of the sidebar's filter chain.
MaxChain == 3

\* Largest number of nodes of the graphs the disablers mark.
MaxDisablerNodes == 3

\* Disablers are toggled while the raw graph's generation is below this.
MaxGeneration == 10

\* Largest length of a dependency list given to the builder as it comes, and
\* the largest line number its entries name.
MaxDeps == 3

MaxDepLine == 2

(* ---------------------------- helpers ---------------------------------- *)

NodeIds(g) == DOMAIN g.nodes

NodeCount(g) == Cardinality(DOMAIN g.nodes)

EdgeIds(g) == DOMAIN g.edges

\* Graph::neighbors_directed(n, Outgoing): one entry per outgoing edge.
OutEdges(g, n) == {e \in EdgeIds(g) : g.edges[e].source = n}

InEdges(g, n) == {e \in EdgeIds(g) : g.edges[e].target = n}

Children(g, n) == {g.edges[e].target : e \in OutEdges(g, n)}

Parents(g, n) == {g.edges[e].source : e \in InEdges(g, n)}

VisibleSet(g) == {i \in NodeIds(g) : g.nodes[i].visible}

EmptyGraph == [nodes |-> <<>>, edges |-> <<>>, cost_ranked_node_indices |-> <<>>]

(* ------------------------ raw graph construction ----------------------- *)

\* node_of_line_nr.contains_key(line): nodes and map entries are added together.
HasLine(g, line) == \E i \in NodeIds(g) : g.nodes[i].line_nr = line

NodeOfLineNr(g, line) == CHOOSE i \in NodeIds(g) : g.nodes[i].line_nr = line

\* InstGraph::add_node: a line number met again adds nothing.
AddNode(g, node_data) ==
    IF HasLine(g, node_data.line_nr) THEN g
    ELSE LET node == NodeCount(g)
         IN [g EXCEPT !.nodes =
                [i \in 0..node |->
                    IF i = node THEN [node_data EXCEPT !.orig_graph_idx = node]
                    ELSE g.nodes[i]]]

\* InstGraph::add_edge: an edge is added only when both lines have a node.
AddEdge(g, from, to) ==
    IF HasLine(g, from) /\ HasLine(g, to)
    THEN [g EXCEPT !.edges = Append(g.edges,
              [source |-> NodeOfLineNr(g, from), target |-> NodeOfLineNr(g, to)])]
    ELSE g

\* kind and match_kind stand for Node::kind() and for the MatchKind of the
\* instantiation's match, which the filters of results/filters.rs read.
NewNodeData(dep) ==
    [line_nr |-> dep.to, is_theory_inst |-> dep.quant_discovered, cost |-> dep.cost,
     visible |-> TRUE, child_count |-> 0, parent_count |-> 0,
     orig_graph_idx |-> 0, cost_rank |-> 0,
     kind |-> dep.kind, match_kind |-> dep.match_kind, disabled |-> FALSE]

RECURSIVE AddAllNodes(_, _)
AddAllNodes(g, deps) ==
    IF deps = <<>> THEN g
    ELSE AddAllNodes(IF Head(deps).has_to THEN AddNode(g, NewNodeData(Head(deps))) ELSE g,
                     Tail(deps))

RECURSIVE AddAllEdges(_, _)
AddAllEdges(g, deps) ==
    IF deps = <<>> THEN g
    ELSE LET dep == Head(deps)
         IN AddAllEdges(IF dep.has_to /\ dep.from > 0 THEN AddEdge(g, dep.from, dep.to) ELSE g,
                        Tail(deps))

\* Precomputed child_count / parent_count.
WithCounts(g) ==
    [g EXCEPT !.nodes = [i \in NodeIds(g) |->
        [g.nodes[i] EXCEPT !.child_count = Cardinality(OutEdges(g, i)),
                           !.parent_count = Cardinality(InEdges(g, i))]]]

\* Variant: the cheaper node comes first.
CostOrderAscending(g, node_a, node_b) ==
    IF g.nodes[node_a].cost > g.nodes[node_b].cost THEN "Greater"
    ELSE IF g.nodes[node_a].cost = g.nodes[node_b].cost
            /\ g.nodes[node_b].line_nr < g.nodes[node_a].line_nr THEN "Greater"
    ELSE "Less"

\* The comparator handed to sort_unstable_by: costlier first, then lower line.
CostOrder(g, node_a, node_b) ==
    IF g.nodes[node_a].cost < g.nodes[node_b].cost THEN "Greater"
    ELSE IF g.nodes[node_a].cost = g.nodes[node_b].cost
            /\ g.nodes[node_b].line_nr < g.nodes[node_a].line_nr THEN "Greater"
    ELSE "Less"

\* Insert x into a sequence sorted by CostOrder.
RECURSIVE InsertByCost(_, _, _)
InsertByCost(g, sorted, x) ==
    IF sorted = <<>> THEN <<x>>
    ELSE IF CostOrder(g, x, Head(sorted)) = "Less" THEN <<x>> \o sorted
    ELSE <<Head(sorted)>> \o InsertByCost(g, Tail(sorted), x)

RECURSIVE SortByCost(_, _, _)
SortByCost(g, sorted, i) ==
    IF i >= NodeCount(g) THEN sorted
    ELSE SortByCost(g, InsertByCost(g, sorted, i), i + 1)

\* cost_ranked_node_indices: node indices, costliest first.
CostRankedNodeIndices(g) == SortByCost(g, <<>>, 0)

WithCostRank(g) ==
    LET ranked == CostRankedNodeIndices(g)
    IN [g EXCEPT !.nodes = [i \in NodeIds(g) |->
           [g.nodes[i] EXCEPT !.cost_rank =
               (CHOOSE k \in 1..Len(ranked) : ranked[k] = i) - 1]],
                 !.cost_ranked_node_indices = ranked]

ComputeInstantiationGraph(deps) ==
    WithCostRank(WithCounts(AddAllEdges(AddAllNodes(EmptyGraph, deps), deps)))

(* ------------------------------ filters -------------------------------- *)

\* Variant: a rejected node loses its edges too (what Graph::retain_nodes does).
RetainNodesDropEdges(g, retain) ==
    [g EXCEPT !.nodes = [i \in NodeIds(g) |->
        IF i \notin retain THEN [g.nodes[i] EXCEPT !.visible = FALSE] ELSE g.nodes[i]],
              !.edges = LET Kept(edge) == edge.source \in retain /\ edge.target \in retain
                        IN SelectSeq(g.edges, Kept)]

\* InstGraph::retain_nodes: a node the predicate rejects is hidden in place
\* (retain is the set of nodes the predicate accepts).
RetainNodes(g, retain) ==
    [g EXCEPT !.nodes = [i \in NodeIds(g) |->
        IF i \notin retain THEN [g.nodes[i] EXCEPT !.visible = FALSE] ELSE g.nodes[i]]]

\* RawInstGraph::set_visibility_when(hidden, f): every node f accepts gets the
\* flag (f is the set of nodes the predicate accepts).
SetVisibilityWhen(g, hidden, f) ==
    [g EXCEPT !.nodes = [i \in NodeIds(g) |->
        IF i \in f THEN [g.nodes[i] EXCEPT !.visible = ~hidden] ELSE g.nodes[i]]]

\* RawInstGraph::set_visibility_many(hidden, nodes): every listed node gets the flag.
SetVisibilityMany(g, hidden, nodes) ==
    [g EXCEPT !.nodes = [i \in NodeIds(g) |->
        IF i \in nodes THEN [g.nodes[i] EXCEPT !.visible = ~hidden] ELSE g.nodes[i]]]

Last(seq) == seq[Len(seq)]

Take(seq, n) == SubSeq(seq, 1, IF n < Len(seq) THEN n ELSE Len(seq))

\* Variant: the nodes not kept are removed with their edges.
KeepNMostCostlyRemoving(g, n) ==
    LET visible_nodes == VisibleSet(g)
        IsVisible(nidx) == nidx \in visible_nodes
        taken == Take(SelectSeq(g.cost_ranked_node_indices, IsVisible), n)
    IN IF taken = <<>> THEN [graph |-> g, panicked |-> TRUE]
       ELSE LET nth_largest_cost_rank == g.nodes[Last(taken)].cost_rank
                Keep == {i \in NodeIds(g) :
                            g.nodes[i].visible /\ g.nodes[i].cost_rank <= nth_largest_cost_rank}
            IN [graph |-> RetainNodesDropEdges(g, Keep), panicked |-> FALSE]

\* Variant: the n-th costliest node itself is not kept.
KeepNMostCostlyStrict(g, n) ==
    LET visible_nodes == VisibleSet(g)
        IsVisible(nidx) == nidx \in visible_nodes
        taken == Take(SelectSeq(g.cost_ranked_node_indices, IsVisible), n)
    IN IF taken = <<>> THEN [graph |-> g, panicked |-> TRUE]
       ELSE LET nth_largest_cost_rank == g.nodes[Last(taken)].cost_rank
                Keep == {i \in NodeIds(g) :
                            g.nodes[i].visible /\ g.nodes[i].cost_rank < nth_largest_cost_rank}
            IN [graph |-> RetainNodes(g, Keep), panicked |-> FALSE]

\* InstGraph::keep_n_most_costly; the unwrap of an empty selection panics.
KeepNMostCostly(g, n) ==
    LET visible_nodes == VisibleSet(g)
        IsVisible(nidx) == nidx \in visible_nodes
        taken == Take(SelectSeq(g.cost_ranked_node_indices, IsVisible), n)
    IN IF taken = <<>> THEN [graph |-> g, panicked |-> TRUE]
       ELSE LET nth_largest_cost_rank == g.nodes[Last(taken)].cost_rank
                Keep == {i \in NodeIds(g) :
                            g.nodes[i].visible /\ g.nodes[i].cost_rank <= nth_largest_cost_rank}
            IN [graph |-> RetainNodes(g, Keep), panicked |-> FALSE]

\* Variant: the walk stops at the children.
DfsForwardOneLevel(g, seen) == seen \cup UNION {Children(g, n) : n \in seen}

\* Dfs::new(graph, root).iter(graph): the nodes reachable from root, root included.
RECURSIVE DfsForward(_, _)
DfsForward(g, seen) ==
    LET next == seen \cup UNION {Children(g, n) : n \in seen}
    IN IF next = seen THEN seen ELSE DfsForward(g, next)

\* The same walk over graph.raw.rev().
RECURSIVE DfsReversed(_, _)
DfsReversed(g, seen) ==
    LET next == seen \cup UNION {Parents(g, n) : n \in seen}
    IN IF next = seen THEN seen ELSE DfsReversed(g, next)

Descendants(g, root) == DfsForward(g, {root})

Ancestors(g, root) == DfsReversed(g, {root})

\* Variant: the direction is not looked at.
NeighborsOutgoing(g, nidx, direction) == Children(g, nidx)

NeighborsDirected(g, nidx, direction) ==
    IF direction = "Outgoing" THEN Children(g, nidx) ELSE Parents(g, nidx)

MinOf(S) == CHOOSE x \in S : \A y \in S : x <= y

\* Node::fwd_depth.min: least number of hops from a root.
RECURSIVE FwdDepthMin(_, _)
FwdDepthMin(g, i) ==
    IF Parents(g, i) = {} THEN 0
    ELSE 1 + MinOf({FwdDepthMin(g, p) : p \in Parents(g, i)})

Ok(g) == [graph |-> g, panicked |-> FALSE]

\* Variant: an axiom match has no quantifier.
QuantIdxNoAxiom(match_kind) ==
    IF match_kind.kind \in {"MBQI", "Quantifier"} THEN {match_kind.quant} ELSE {}

\* MatchKind::quant_idx: an Option, the empty set for None.
QuantIdx(match_kind) ==
    IF match_kind.kind \in {"MBQI", "Axiom", "Quantifier"} THEN {match_kind.quant} ELSE {}

\* Variant: an MBQI match counts as discovered too.
IsDiscoveredOrMBQI(match_kind) == QuantIdx(match_kind) = {} \/ match_kind.kind = "MBQI"

\* MatchKind::is_discovered.
IsDiscovered(match_kind) == QuantIdx(match_kind) = {}

\* node.kind().inst().is_some_and(pred of the match kind): the set of such nodes.
InstNodes(g) == {idx \in NodeIds(g) : g.nodes[idx].kind = "Instantiation"}

\* Variant: every quantifier displays under one name.
QuantNameSame(qidx) == "P"

\* parser[q].kind.with(&ctxt).to_string(): the display name of a quantifier;
\* the quantifiers 0 and 1 share a name.
QuantName(qidx) == IF qidx = 2 THEN "Q" ELSE "P"

\* Variant: MaxDepth shows the deep nodes instead of hiding them.
FilterApplyDepthShows(filter, g) ==
    CASE filter.kind = "MaxNodeIdx" ->
            Ok(SetVisibilityWhen(g, TRUE,
                    {idx \in NodeIds(g) : idx >= filter.n}))
      [] filter.kind = "MinNodeIdx" ->
            Ok(SetVisibilityWhen(g, TRUE,
                    {idx \in NodeIds(g) : idx < filter.n}))
      [] filter.kind = "IgnoreTheorySolving" ->
            Ok(SetVisibilityWhen(g, TRUE,
                    {idx \in InstNodes(g) : IsDiscovered(g.nodes[idx].match_kind)}))
      [] filter.kind = "MaxInsts" -> KeepNMostCostly(g, filter.n)
      [] filter.kind = "ShowNeighbours" ->
            Ok(SetVisibilityMany(g, FALSE, NeighborsDirected(g, filter.node, filter.dir)))
      [] filter.kind = "VisitSubTreeWithRoot" ->
            Ok(SetVisibilityMany(g, ~filter.retain, Descendants(g, filter.node)))
      [] filter.kind = "VisitSourceTree" ->
            Ok(SetVisibilityMany(g, ~filter.retain, Ancestors(g, filter.node)))
      [] filter.kind = "MaxDepth" ->
            Ok(SetVisibilityWhen(g, FALSE,
                    {idx \in NodeIds(g) : FwdDepthMin(g, idx) > filter.n}))

\* Variant: VisitSubTreeWithRoot passes retain, not its negation, as the flag.
FilterApplyRetainAsHidden(filter, g) ==
    CASE filter.kind = "MaxNodeIdx" ->
            Ok(SetVisibilityWhen(g, TRUE,
                    {idx \in NodeIds(g) : idx >= filter.n}))
      [] filter.kind = "MinNodeIdx" ->
            Ok(SetVisibilityWhen(g, TRUE,
                    {idx \in NodeIds(g) : idx < filter.n}))
      [] filter.kind = "IgnoreTheorySolving" ->
            Ok(SetVisibilityWhen(g, TRUE,
                    {idx \in InstNodes(g) : IsDiscovered(g.nodes[idx].match_kind)}))
      [] filter.kind = "MaxInsts" -> KeepNMostCostly(g, filter.n)
      [] filter.kind = "ShowNeighbours" ->
            Ok(SetVisibilityMany(g, FALSE, NeighborsDirected(g, filter.node, filter.dir)))
      [] filter.kind = "VisitSubTreeWithRoot" ->
            Ok(SetVisibilityMany(g, filter.retain, Descendants(g, filter.node)))
      [] filter.kind = "VisitSourceTree" ->
            Ok(SetVisibilityMany(g, ~filter.retain, Ancestors(g, filter.node)))
      [] filter.kind = "MaxDepth" ->
            Ok(SetVisibilityWhen(g, TRUE,
                    {idx \in NodeIds(g) : FwdDepthMin(g, idx) > filter.n}))

\* Filter::apply.
FilterApply(filter, g) ==
    CASE filter.kind = "MaxNodeIdx" ->
            Ok(SetVisibilityWhen(g, TRUE,
                    {idx \in NodeIds(g) : idx >= filter.n}))
      [] filter.kind = "MinNodeIdx" ->
            Ok(SetVisibilityWhen(g, TRUE,
                    {idx \in NodeIds(g) : idx < filter.n}))
      [] filter.kind = "IgnoreTheorySolving" ->
            Ok(SetVisibilityWhen(g, TRUE,
                    {idx \in InstNodes(g) : IsDiscovered(g.nodes[idx].match_kind)}))
      [] filter.kind = "IgnoreQuantifier" ->
            Ok(SetVisibilityWhen(g, TRUE,
                    {idx \in InstNodes(g) : QuantIdx(g.nodes[idx].match_kind) = filter.qidx}))
      [] filter.kind = "IgnoreAllButQuantifier" ->
            Ok(SetVisibilityWhen(g, TRUE,
                    {idx \in InstNodes(g) : QuantIdx(g.nodes[idx].match_kind) # filter.qidx}))
      [] filter.kind = "MaxInsts" -> KeepNMostCostly(g, filter.n)
      [] filter.kind = "ShowNeighbours" ->
            Ok(SetVisibilityMany(g, FALSE, NeighborsDirected(g, filter.node, filter.dir)))
      [] filter.kind = "VisitSubTreeWithRoot" ->
            Ok(SetVisibilityMany(g, ~filter.retain, Descendants(g, filter.node)))
      [] filter.kind = "VisitSourceTree" ->
            Ok(SetVisibilityMany(g, ~filter.retain, Ancestors(g, filter.node)))
      [] filter.kind = "MaxDepth" ->
            Ok(SetVisibilityWhen(g, TRUE,
                    {idx \in NodeIds(g) : FwdDepthMin(g, idx) > filter.n}))
      [] filter.kind = "ShowNamedQuantifier" ->
            Ok(SetVisibilityWhen(g, FALSE,
                    {idx \in InstNodes(g) :
                        \E q \in QuantIdx(g.nodes[idx].match_kind) : QuantName(q) = filter.name}))

\* Variant: theory-solving instantiations keep their flag.
ResetVisibilityOfInsts(g) ==
    [g EXCEPT !.nodes = [i \in NodeIds(g) |->
        IF g.nodes[i].is_theory_inst THEN g.nodes[i] ELSE [g.nodes[i] EXCEPT !.visible = TRUE]]]

\* Variant: the raw graph is cloned without its flags being set first.
ResetVisibilityCloneOnly(g) == g

\* InstGraph::reset, the flags part.
ResetVisibility(g) ==
    [g EXCEPT !.nodes = [i \in NodeIds(g) |-> [g.nodes[i] EXCEPT !.visible = TRUE]]]

(* ----------------------- visible graph (to_visible) -------------------- *)

MaxOf(S) == CHOOSE x \in S : \A y \in S : x >= y

RECURSIVE Descending(_)
Descending(S) == IF S = {} THEN <<>> ELSE <<MaxOf(S)>> \o Descending(S \ {MaxOf(S)})

RECURSIVE Ascending(_)
Ascending(S) == IF S = {} THEN <<>> ELSE <<MinOf(S)>> \o Ascending(S \ {MinOf(S)})

\* Graph::edges(a): the outgoing edges of a, the one added last first.
Edges(g, a) == Descending(OutEdges(g, a))

\* Node::subgraph is Some: the node belongs to a partition of connected nodes.
HasSubgraph(g, i) == OutEdges(g, i) # {} \/ InEdges(g, i) # {}

\* TransitiveClosure::reachable_from_many over reach_fwd / reach_bwd (reflexive).
ReachFwd(g, from) == DfsForward(g, from)

ReachBwd(g, from) == DfsReversed(g, from)

\* The VisibleNode of every visible raw node, in raw index order.
\* Variant: the two counts are taken in the wrong direction.
VisibleNodesSwapped(g) ==
    LET order == Ascending(VisibleSet(g))
    IN [k \in 1..Len(order) |->
          [idx |-> order[k],
           hidden_parents |-> Cardinality({n \in Children(g, order[k]) : ~g.nodes[n].visible}),
           hidden_children |-> Cardinality({n \in Parents(g, order[k]) : ~g.nodes[n].visible})]]

\* Variant: node_map keeps every node, whatever its flag.
VisibleNodesUnfiltered(g) ==
    LET order == Ascending(NodeIds(g))
    IN [k \in 1..Len(order) |->
          [idx |-> order[k],
           hidden_parents |-> Cardinality({n \in Parents(g, order[k]) : ~g.nodes[n].visible}),
           hidden_children |-> Cardinality({n \in Children(g, order[k]) : ~g.nodes[n].visible})]]

VisibleNodes(g) ==
    LET order == Ascending(VisibleSet(g))
    IN [k \in 1..Len(order) |->
          [idx |-> order[k],
           hidden_parents |-> Cardinality({n \in Parents(g, order[k]) : ~g.nodes[n].visible}),
           hidden_children |-> Cardinality({n \in Children(g, order[k]) : ~g.nodes[n].visible})]]

\* node_index_map / reverse: raw index -> index in the visible graph (0-based).
VisibleIndex(g, raw) == Cardinality({i \in VisibleSet(g) : i < raw})

DirectEdge(g, e) ==
    [source |-> VisibleIndex(g, g.edges[e].source), target |-> VisibleIndex(g, g.edges[e].target),
     indirect |-> FALSE, path |-> <<e>>]

\* Variant: only the source of an edge is tested.
DirectEdgesOfVisibleSource(g) ==
    LET kept == Ascending({e \in EdgeIds(g) : g.nodes[g.edges[e].source].visible})
    IN [k \in 1..Len(kept) |-> DirectEdge(g, kept[k])]

\* Raw edges with both endpoints visible, in raw edge order.
DirectEdges(g) ==
    LET kept == Ascending({e \in EdgeIds(g) :
                    g.nodes[g.edges[e].source].visible /\ g.nodes[g.edges[e].target].visible})
    IN [k \in 1..Len(kept) |-> DirectEdge(g, kept[k])]

\* Variant: the stored path is the last edge alone.
RECURSIVE ToEdgesLastOnly(_, _, _, _)
ToEdgesLastOnly(g, i_from, path, to_edges) ==
    IF to_edges = <<>> THEN <<>>
    ELSE LET i_to_edge == Head(to_edges)
             i_to == g.edges[i_to_edge].target
         IN (IF ~g.nodes[i_to].visible THEN <<>>
             ELSE <<[source |-> VisibleIndex(g, i_from), target |-> VisibleIndex(g, i_to),
                     indirect |-> TRUE, path |-> <<i_to_edge>>]>>)
            \o ToEdgesLastOnly(g, i_from, path, Tail(to_edges))

\* The edges added for one to_parent: one per visible child.
RECURSIVE ToEdges(_, _, _, _)
ToEdges(g, i_from, path, to_edges) ==
    IF to_edges = <<>> THEN <<>>
    ELSE LET i_to_edge == Head(to_edges)
             i_to == g.edges[i_to_edge].target
         IN (IF ~g.nodes[i_to].visible THEN <<>>
             ELSE <<[source |-> VisibleIndex(g, i_from), target |-> VisibleIndex(g, i_to),
                     indirect |-> TRUE, path |-> Append(path, i_to_edge)]>>)
            \o ToEdges(g, i_from, path, Tail(to_edges))

\* Variant: the walk does not go past from_child.
WalkStackNoExtend(g, i_from, filter, path, top) ==
    ToEdges(g, i_from, Append(path, top), Edges(g, g.edges[top].target))

\* The stack walk of reconnect: top is the popped edge, path the edges above it.
RECURSIVE WalkStack(_, _, _, _, _)
RECURSIVE WalkMany(_, _, _, _, _)
WalkStack(g, i_from, filter, path, top) ==
    LET new_path == Append(path, top)
        i_to_parent == g.edges[top].target
        pushed == {e \in OutEdges(g, i_to_parent) : g.edges[e].target \in filter}
    IN ToEdges(g, i_from, new_path, Edges(g, i_to_parent))
       \o WalkMany(g, i_from, filter, new_path, Ascending(pushed))

WalkMany(g, i_from, filter, path, tops) ==
    IF tops = <<>> THEN <<>>
    ELSE WalkStack(g, i_from, filter, path, Head(tops))
         \o WalkMany(g, i_from, filter, path, Tail(tops))

\* The body of the loop over the edges from -> from_child.
FromChild(g, i_from, i_from_edge) ==
    LET i_from_child == g.edges[i_from_edge].target
        visible_reachable == {s \in ReachFwd(g, {i_from_child}) : g.nodes[s].visible}
        fwd_reachable == ReachFwd(g, visible_reachable)
        bwd_reachable == ReachBwd(g, visible_reachable)
        filter == {i \in NodeIds(g) :
                     HasSubgraph(g, i) /\ i \notin fwd_reachable /\ i \in bwd_reachable}
    IN IF g.nodes[i_from_child].visible THEN <<>>
       ELSE IF fwd_reachable = {} THEN <<>>
       ELSE WalkStack(g, i_from, filter, <<>>, i_from_edge)

RECURSIVE FromEdges(_, _, _)
FromEdges(g, i_from, from_edges) ==
    IF from_edges = <<>> THEN <<>>
    ELSE FromChild(g, i_from, Head(from_edges)) \o FromEdges(g, i_from, Tail(from_edges))

RECURSIVE ReconnectFrom(_, _)
ReconnectFrom(g, v_froms) ==
    IF v_froms = <<>> THEN <<>>
    ELSE LET i_from == Head(v_froms)
         IN (IF ~HasSubgraph(g, i_from) THEN <<>> ELSE FromEdges(g, i_from, Edges(g, i_from)))
            \o ReconnectFrom(g, Tail(v_froms))

\* VisibleInstGraph::reconnect: the Indirect edges, in the order they are added.
Reconnect(g) == ReconnectFrom(g, Ascending(VisibleSet(g)))

\* InstGraph::to_visible.
\* Variant: the snapshot is returned before it is reconnected.
ToVisibleUnconnected(g) == [nodes |-> VisibleNodes(g), edges |-> DirectEdges(g)]

ToVisible(g) == [nodes |-> VisibleNodes(g), edges |-> DirectEdges(g) \o Reconnect(g)]

\* orig_graph.clone() as a visible graph: every node, every edge direct.
CloneAsVisible(g) ==
    [nodes |-> [k \in 1..NodeCount(g) |->
                  [idx |-> k - 1, hidden_parents |-> 0, hidden_children |-> 0]],
     edges |-> [e \in EdgeIds(g) |->
                  [source |-> g.edges[e].source, target |-> g.edges[e].target,
                   indirect |-> FALSE, path |-> <<e>>]]]

(* ----------------------------- longest path ---------------------------- *)

\* Number of nodes of the longest path of raw edges that ends in i.
RECURSIVE BwdLength(_, _)
BwdLength(g, i) ==
    IF Parents(g, i) = {} THEN 1
    ELSE 1 + MaxOf({BwdLength(g, p) : p \in Parents(g, i)})

\* Number of nodes of the longest path of raw edges that starts in i.
RECURSIVE FwdLength(_, _)
FwdLength(g, i) ==
    IF Children(g, i) = {} THEN 1
    ELSE 1 + MaxOf({FwdLength(g, c) : c \in Children(g, i)})

\* The longest path into i, root first; of several parents that are equally
\* far from a root the one with the smallest index is taken.
RECURSIVE LongestPathTo(_, _)
LongestPathTo(g, i) ==
    IF Parents(g, i) = {} THEN <<i>>
    ELSE LongestPathTo(g, MinOf({p \in Parents(g, i) : BwdLength(g, p) + 1 = BwdLength(g, i)}))
         \o <<i>>

\* The longest path out of i, i first, with the same rule for equal children.
RECURSIVE LongestPathFrom(_, _)
LongestPathFrom(g, i) ==
    IF Children(g, i) = {} THEN <<i>>
    ELSE <<i>>
         \o LongestPathFrom(g, MinOf({c \in Children(g, i) : FwdLength(g, c) + 1 = FwdLength(g, i)}))

\* Variant: only the part of the path below the node.
ShowLongestPathBelow(g, node) ==
    LET path == LongestPathFrom(g, node)
    IN [graph |-> SetVisibilityWhen(g, TRUE, {i \in NodeIds(g) : \A j \in 1..Len(path) : path[j] # i}),
        path |-> path]

\* RawInstGraph::show_longest_path_through(node): the longest path through
\* node is returned and every node off it is hidden.
ShowLongestPathThrough(g, node) ==
    LET path == LongestPathTo(g, node) \o Tail(LongestPathFrom(g, node))
    IN [graph |-> SetVisibilityWhen(g, TRUE, {i \in NodeIds(g) : \A j \in 1..Len(path) : path[j] # i}),
        path |-> path]

(* ------------------------------ disablers ------------------------------ *)

\* The disablers of results/filters.rs.
Disablers == {"Smart", "ENodes", "GivenEqualities", "AllEqualities"}

\* Variant: Smart treats a transitive equality as it treats a given one.
DisableSmartUniform(disabler, g, idx) ==
    LET node == g.nodes[idx]
        parents == Cardinality(InEdges(g, idx))
        children == Cardinality(OutEdges(g, idx))
    IN CASE disabler = "ENodes" -> node.kind = "ENode"
         [] disabler = "GivenEqualities" -> node.kind = "GivenEquality"
         [] disabler = "AllEqualities" ->
                node.kind = "GivenEquality" \/ node.kind = "TransEquality"
         [] disabler = "Smart" ->
                /\ node.kind # "Instantiation"
                /\ children = 0 \/ (parents = 1 /\ children = 1)

\* Variant: Smart looks at the shape only, whatever the node is.
DisableAnyKind(disabler, g, idx) ==
    LET node == g.nodes[idx]
        parents == Cardinality(InEdges(g, idx))
        children == Cardinality(OutEdges(g, idx))
    IN CASE disabler = "ENodes" -> node.kind = "ENode"
         [] disabler = "GivenEqualities" -> node.kind = "GivenEquality"
         [] disabler = "AllEqualities" ->
                node.kind = "GivenEquality" \/ node.kind = "TransEquality"
         [] disabler = "Smart" ->
                IF node.kind = "TransEquality"
                THEN parents = 0 \/ (parents = 1 /\ children = 1)
                ELSE children = 0 \/ (parents = 1 /\ children = 1)

\* Disabler::disable: parents and children are counted on the raw graph, one
\* per edge.
Disable(disabler, g, idx) ==
    LET node == g.nodes[idx]
        parents == Cardinality(InEdges(g, idx))
        children == Cardinality(OutEdges(g, idx))
    IN CASE disabler = "ENodes" -> node.kind = "ENode"
         [] disabler = "GivenEqualities" -> node.kind = "GivenEquality"
         [] disabler = "AllEqualities" ->
                node.kind = "GivenEquality" \/ node.kind = "TransEquality"
         [] disabler = "Smart" ->
                CASE node.kind = "ENode" ->
                        children = 0 \/ (parents = 1 /\ children = 1)
                  [] node.kind = "GivenEquality" ->
                        children = 0 \/ (parents = 1 /\ children = 1)
                  [] node.kind = "TransEquality" ->
                        parents = 0 \/ (parents = 1 /\ children = 1)
                  [] node.kind = "Instantiation" -> FALSE

\* Variant: the marked nodes are hidden as well.
ResetDisabledToHiding(g, f) ==
    [g EXCEPT !.nodes = [i \in NodeIds(g) |->
        [g.nodes[i] EXCEPT !.disabled = i \in f,
                           !.visible = g.nodes[i].visible /\ i \notin f]]]

\* reset_disabled_to: the nodes of f are marked disabled, every other node is
\* not; the visible flags stay as they are.
ResetDisabledTo(g, f) ==
    [g EXCEPT !.nodes = [i \in NodeIds(g) |-> [g.nodes[i] EXCEPT !.disabled = i \in f]]]

\* Variant: a node is marked when every disabler of many marks it.
DisablerApplyAll(many, g) ==
    ResetDisabledTo(g, {idx \in NodeIds(g) : \A d \in many : Disable(d, g, idx)})

\* Disabler::apply: a node is marked when any disabler of many marks it.
DisablerApply(many, g) ==
    ResetDisabledTo(g, {idx \in NodeIds(g) : \E d \in many : Disable(d, g, idx)})

(* ------------------------------- inputs -------------------------------- *)

\* Instantiation costs of the fact store.
Costs == {1, 5}

\* Dependencies point from an earlier instantiation to a later one.
EdgePairs(n) == {pair \in (0..n - 1) \X (0..n - 1) : pair[1] < pair[2]}

\* The match kinds of items.rs.
MBQI(quant) == [kind |-> "MBQI", quant |-> quant]

TheorySolving == [kind |-> "TheorySolving", quant |-> 0]

Axiom(quant) == [kind |-> "Axiom", quant |-> quant]

Quantifier(quant) == [kind |-> "Quantifier", quant |-> quant]

\* Instantiation i is logged at line i + 1.
LineOf(i) == i + 1

RECURSIVE ParentDeps(_, _, _, _)
ParentDeps(E, dep, i, p) ==
    IF p >= i THEN <<>>
    ELSE (IF <<p, i>> \in E THEN <<[dep EXCEPT !.from = LineOf(p)]>> ELSE <<>>)
         \o ParentDeps(E, dep, i, p + 1)

\* The dependency list of n instantiations: one entry per blamed instantiation,
\* or one entry with from = 0 for an instantiation that depends on none.
RECURSIVE Dependencies(_, _, _, _, _)
Dependencies(n, E, cost, theory, i) ==
    IF i >= n THEN <<>>
    ELSE LET dep == [from |-> 0, has_to |-> TRUE, to |-> LineOf(i),
                     quant_discovered |-> theory[i], cost |-> cost[i],
                     kind |-> "Instantiation",
                     match_kind |-> IF theory[i] THEN TheorySolving ELSE Quantifier(0)]
         IN (IF \A p \in 0..i - 1 : <<p, i>> \notin E THEN <<dep>> ELSE ParentDeps(E, dep, i, 0))
            \o Dependencies(n, E, cost, theory, i + 1)

\* The nodes of the runs over kinds: what a node is and, for an
\* instantiation, the kind of its match.
NodeChoices ==
    {[kind |-> "ENode", match_kind |-> TheorySolving],
     [kind |-> "GivenEquality", match_kind |-> TheorySolving]}
    \cup {[kind |-> "Instantiation", match_kind |-> m] :
             m \in {TheorySolving, MBQI(0), Axiom(1), Quantifier(0), Quantifier(1), Quantifier(2)}}

\* The arguments of the quantifier filters: None or Some(q), and a display name.
QuantChoices == {{}, {0}, {1}, {2}}

NameChoices == {"P", "Q", "R"}

\* n unconnected nodes of the given kinds.
RECURSIVE DependenciesOfKinds(_, _, _)
DependenciesOfKinds(n, choice, i) ==
    IF i >= n THEN <<>>
    ELSE <<[from |-> 0, has_to |-> TRUE, to |-> LineOf(i), cost |-> 1,
            quant_discovered |-> choice[i].kind = "Instantiation"
                                   /\ IsDiscovered(choice[i].match_kind),
            kind |-> choice[i].kind, match_kind |-> choice[i].match_kind]>>
         \o DependenciesOfKinds(n, choice, i + 1)

\* The nodes of the runs over disablers: every kind of node, and an
\* instantiation either of a quantifier or of a theory.
ShapeChoices ==
    {[kind |-> "ENode", match_kind |-> TheorySolving],
     [kind |-> "GivenEquality", match_kind |-> TheorySolving],
     [kind |-> "TransEquality", match_kind |-> TheorySolving],
     [kind |-> "Instantiation", match_kind |-> Quantifier(0)],
     [kind |-> "Instantiation", match_kind |-> TheorySolving]}

\* n nodes of the given kinds with the edges of E.
RECURSIVE DependenciesOfShape(_, _, _, _)
DependenciesOfShape(n, E, choice, i) ==
    IF i >= n THEN <<>>
    ELSE LET dep == [from |-> 0, has_to |-> TRUE, to |-> LineOf(i), cost |-> 1,
                     quant_discovered |-> choice[i].kind = "Instantiation"
                                            /\ IsDiscovered(choice[i].match_kind),
                     kind |-> choice[i].kind, match_kind |-> choice[i].match_kind]
         IN (IF \A p \in 0..i - 1 : <<p, i>> \notin E THEN <<dep>> ELSE ParentDeps(E, dep, i, 0))
            \o DependenciesOfShape(n, E, choice, i + 1)

\* The entries a dependency list may hold: from is 0 or a line, to is None or
\* a line, whether or not an entry has that line as its target.
DependencyChoices ==
    {[from |-> from, has_to |-> FALSE, to |-> 0, cost |-> 1, quant_discovered |-> FALSE,
      kind |-> "Instantiation", match_kind |-> Quantifier(0)] : from \in 0..MaxDepLine}
    \cup {[from |-> from, has_to |-> TRUE, to |-> to, cost |-> cost,
            quant_discovered |-> FALSE, kind |-> "Instantiation",
            match_kind |-> Quantifier(0)] :
               from \in 0..MaxDepLine, to \in 1..MaxDepLine, cost \in Costs}

DependencyLists == UNION {[1..len -> DependencyChoices] : len \in 0..MaxDeps}

(* ------------------------------ operations ----------------------------- *)

\* FilterOutput::None and FilterOutput::LongestPath(path).
NoOutput == [kind |-> "None", path |-> <<>>]

LongestPath(path) == [kind |-> "LongestPath", path |-> path]

\* The call unwound with a panic and returned nothing.
Panic == [kind |-> "Panic", path |-> <<>>]

Op(kind, n, node, retain, dir) ==
    [kind |-> kind, n |-> n, node |-> node, retain |-> retain, dir |-> dir]

Plain(kind) == Op(kind, 0, 0, FALSE, "Outgoing")

\* DEFAULT_NODE_COUNT of svg_result, the argument of the default MaxInsts.
DEFAULT_NODE_COUNT == 125

\* DEFAULT_FILTER_CHAIN.
DEFAULT_FILTER_CHAIN ==
    <<Plain("IgnoreTheorySolving"), Op("MaxInsts", DEFAULT_NODE_COUNT, 0, FALSE, "Outgoing")>>

\* DEFAULT_DISABLER_CHAIN.
DEFAULT_DISABLER_CHAIN ==
    <<[disabler |-> "Smart", enabled |-> TRUE], [disabler |-> "ENodes", enabled |-> FALSE],
      [disabler |-> "GivenEqualities", enabled |-> FALSE],
      [disabler |-> "AllEqualities", enabled |-> FALSE]>>

\* FiltersState::create: the state of a new sidebar (None is the empty set).
Create ==
    [disabler_chain |-> DEFAULT_DISABLER_CHAIN,
     filter_chain |-> DEFAULT_FILTER_CHAIN,
     applied_filter_chain |-> DEFAULT_FILTER_CHAIN,
     prev_filter_chain |-> DEFAULT_FILTER_CHAIN,
     selected_filter |-> {},
     edit_filter |-> {},
     dragging |-> FALSE,
     will_delete |-> FALSE]

\* The messages to the graph: a kind and, where the kind has one, its payload.
SVGMsg(kind, payload) == [kind |-> kind, payload |-> payload]

\* Variant: the filters are sent last to first.
RerenderMsgsReversed(state) ==
    <<SVGMsg("ResetGraph", {})>>
    \o [j \in 1..Len(state.filter_chain) |->
           SVGMsg("ApplyFilter", {state.filter_chain[Len(state.filter_chain) + 1 - j]})]
    \o <<SVGMsg("RenderGraph", {})>>

\* FiltersState::rerender_msgs: reset, every filter of the chain in order, render.
RerenderMsgs(state) ==
    <<SVGMsg("ResetGraph", {})>>
    \o [j \in 1..Len(state.filter_chain) |-> SVGMsg("ApplyFilter", {state.filter_chain[j]})]
    \o <<SVGMsg("RenderGraph", {})>>

\* FiltersState::send_updates: nothing is sent when the chain is the applied one.
SendUpdates(state, history) ==
    IF state.applied_filter_chain = state.filter_chain
    THEN [state |-> state, sent |-> <<>>, result |-> FALSE]
    ELSE LET with_prev == IF history
                          THEN [state EXCEPT !.prev_filter_chain = state.applied_filter_chain]
                          ELSE state
             applied == [with_prev EXCEPT !.applied_filter_chain = state.filter_chain]
         IN [state |-> applied, sent |-> RerenderMsgs(applied), result |-> TRUE]

\* FiltersState::reset_disabled: the enabled disablers, then a re-render.
ResetDisabledMsgs(state) ==
    <<SVGMsg("SetDisabled",
             {state.disabler_chain[j].disabler :
                 j \in {k \in 1..Len(state.disabler_chain) : state.disabler_chain[k].enabled}})>>
    \o RerenderMsgs(state)

\* InstGraph::from: the session's graph right after construction.
NewGraph(deps) ==
    /\ parser = deps
    /\ orig_graph = ComputeInstantiationGraph(parser)
    /\ visible_graph = CloneAsVisible(orig_graph)
    /\ stats = [generation |-> 0]
    /\ generation = stats.generation
    /\ fresh_graph = orig_graph
    /\ panicked = FALSE
    /\ last = [kind |-> "New", retain |-> FALSE, changed |-> FALSE,
            output |-> NoOutput, node |-> {}, disablers |-> {}]
    /\ was_reset = FALSE

\* A session whose sidebar has just been created and has nothing in flight.
New(deps) ==
    /\ NewGraph(deps)
    /\ filters_state = Create
    /\ msgs = <<>>

Chain(n) == {pair \in EdgePairs(n) : pair[2] = pair[1] + 1}

\* Any dependency shape over instantiations of one cost, or a dependency chain
\* over instantiations of any cost and kind (the longest chains vary the costs
\* or the kinds, shorter ones both).
Init ==
    \E n \in 0..MaxNodes :
      \/ \E E \in SUBSET EdgePairs(n) :
            New(Dependencies(n, E, [i \in 0..n - 1 |-> 1], [i \in 0..n - 1 |-> FALSE], 0))
      \/ \E cost \in [0..n - 1 -> Costs], theory \in [0..n - 1 -> BOOLEAN] :
            /\ \/ n < MaxNodes
               \/ \A i \in 0..n - 1 : cost[i] = 1
               \/ \A i \in 0..n - 1 : ~theory[i]
            /\ New(Dependencies(n, Chain(n), cost, theory, 0))

\* SVGMsg::ApplyFilter: Filter::apply on the session's graph.
ApplyFilter(filter) ==
    /\ ~panicked
    /\ LET applied == FilterApply(filter, orig_graph)
       IN /\ orig_graph' = applied.graph
          /\ panicked' = applied.panicked
    /\ fresh_graph' = FilterApply(filter, fresh_graph).graph
    /\ last' = [kind |-> filter.kind, retain |-> filter.retain,
                changed |-> VisibleSet(orig_graph') # VisibleSet(orig_graph),
                output |-> IF panicked' THEN Panic ELSE NoOutput, node |-> {}, disablers |-> {}]
    /\ UNCHANGED <<parser, visible_graph, was_reset, generation>>

\* A filter applied with the sidebar left alone.
Apply(filter) == ApplyFilter(filter) /\ UNCHANGED <<filters_state, msgs, stats>>

MaxNodeIdx ==
    \E n \in 0..NodeCount(orig_graph) : Apply(Op("MaxNodeIdx", n, 0, FALSE, "Outgoing"))

MinNodeIdx ==
    \E n \in 0..NodeCount(orig_graph) : Apply(Op("MinNodeIdx", n, 0, FALSE, "Outgoing"))

IgnoreTheorySolving == Apply(Plain("IgnoreTheorySolving"))

MaxInsts ==
    \E n \in 0..NodeCount(orig_graph) : Apply(Op("MaxInsts", n, 0, FALSE, "Outgoing"))

MaxDepth ==
    \E n \in 0..NodeCount(orig_graph) : Apply(Op("MaxDepth", n, 0, FALSE, "Outgoing"))

ShowNeighbours ==
    \E node \in NodeIds(orig_graph), dir \in {"Incoming", "Outgoing"} :
        Apply(Op("ShowNeighbours", 0, node, FALSE, dir))

VisitSubTreeWithRoot ==
    \E node \in NodeIds(orig_graph), retain \in BOOLEAN :
        Apply(Op("VisitSubTreeWithRoot", 0, node, retain, "Outgoing"))

VisitSourceTree ==
    \E node \in NodeIds(orig_graph), retain \in BOOLEAN :
        Apply(Op("VisitSourceTree", 0, node, retain, "Outgoing"))

\* SVGMsg::ResetGraph: InstGraph::reset.
ResetGraph ==
    /\ ~panicked
    /\ orig_graph' = ResetVisibility(orig_graph)
    /\ visible_graph' = CloneAsVisible(orig_graph')
    /\ fresh_graph' = ComputeInstantiationGraph(parser)
    /\ last' = [kind |-> "Reset", retain |-> FALSE,
                changed |-> VisibleSet(orig_graph') # VisibleSet(orig_graph),
                output |-> NoOutput, node |-> {}, disablers |-> {}]
    /\ was_reset' = (was_reset \/ VisibleSet(orig_graph) # NodeIds(orig_graph))
    /\ UNCHANGED <<parser, panicked, generation>>

\* SVGMsg::RenderGraph: the visible graph is rebuilt from the flags.
RenderGraph ==
    /\ ~panicked
    /\ visible_graph' = ToVisible(orig_graph)
    /\ generation' = stats.generation
    /\ last' = [kind |-> "Render", retain |-> FALSE, changed |-> FALSE,
            output |-> NoOutput, node |-> {}, disablers |-> {}]
    /\ UNCHANGED <<parser, orig_graph, fresh_graph, panicked, was_reset>>

\* A reset and a render with the sidebar left alone.
Reset == ResetGraph /\ UNCHANGED <<filters_state, msgs, stats>>

Render == RenderGraph /\ UNCHANGED <<filters_state, msgs, stats>>

Next ==
    \/ MaxNodeIdx
    \/ MinNodeIdx
    \/ IgnoreTheorySolving
    \/ MaxInsts
    \/ MaxDepth
    \/ ShowNeighbours
    \/ VisitSubTreeWithRoot
    \/ VisitSourceTree
    \/ Reset

Spec == Init /\ [][Next]_vars

\* Filter::apply of results/filters/graph_filters.rs, the variants that go
\* through InstGraph::retain_nodes and InstGraph::keep_n_most_costly.
GraphFiltersApply(filter, g) ==
    CASE filter.kind = "MaxNodeIdx" ->
            Ok(RetainNodes(g, {i \in NodeIds(g) : g.nodes[i].orig_graph_idx <= filter.n}))
      [] filter.kind = "MinNodeIdx" ->
            Ok(RetainNodes(g, {i \in NodeIds(g) : g.nodes[i].orig_graph_idx >= filter.n}))
      [] filter.kind = "IgnoreTheorySolving" ->
            Ok(RetainNodes(g, {i \in NodeIds(g) : ~g.nodes[i].is_theory_inst}))
      [] filter.kind = "MaxInsts" -> KeepNMostCostly(g, filter.n)

GraphFiltersApplyTo(filter) ==
    /\ ~panicked
    /\ LET applied == GraphFiltersApply(filter, orig_graph)
       IN /\ orig_graph' = applied.graph
          /\ panicked' = applied.panicked
    /\ fresh_graph' = GraphFiltersApply(filter, fresh_graph).graph
    /\ last' = [kind |-> filter.kind, retain |-> filter.retain,
                changed |-> VisibleSet(orig_graph') # VisibleSet(orig_graph),
                output |-> IF panicked' THEN Panic ELSE NoOutput, node |-> {}, disablers |-> {}]
    /\ UNCHANGED <<parser, visible_graph, was_reset, filters_state, msgs, stats, generation>>

GraphFiltersMaxNodeIdx ==
    \E n \in 0..NodeCount(orig_graph) :
        GraphFiltersApplyTo(Op("MaxNodeIdx", n, 0, FALSE, "Outgoing"))

GraphFiltersMinNodeIdx ==
    \E n \in 0..NodeCount(orig_graph) :
        GraphFiltersApplyTo(Op("MinNodeIdx", n, 0, FALSE, "Outgoing"))

GraphFiltersIgnoreTheorySolving == GraphFiltersApplyTo(Plain("IgnoreTheorySolving"))

GraphFiltersMaxInsts ==
    \E n \in 0..NodeCount(orig_graph) :
        GraphFiltersApplyTo(Op("MaxInsts", n, 0, FALSE, "Outgoing"))

NextGraphFilters ==
    \/ GraphFiltersMaxNodeIdx
    \/ GraphFiltersMinNodeIdx
    \/ GraphFiltersIgnoreTheorySolving
    \/ GraphFiltersMaxInsts
    \/ Reset

SpecGraphFilters == Init /\ [][NextGraphFilters]_vars

\* Runs over node kinds and match kinds: the filters that read them.
InitKinds ==
    \E n \in 0..MaxKindNodes :
        \E choice \in [0..n - 1 -> NodeChoices] : New(DependenciesOfKinds(n, choice, 0))

QuantOp(kind, qidx, name) ==
    [kind |-> kind, n |-> 0, node |-> 0, retain |-> FALSE, dir |-> "Outgoing",
     qidx |-> qidx, name |-> name]

IgnoreQuantifier == \E qidx \in QuantChoices : Apply(QuantOp("IgnoreQuantifier", qidx, ""))

IgnoreAllButQuantifier ==
    \E qidx \in QuantChoices : Apply(QuantOp("IgnoreAllButQuantifier", qidx, ""))

ShowNamedQuantifier ==
    \E name \in NameChoices : Apply(QuantOp("ShowNamedQuantifier", {}, name))

NextKinds ==
    \/ IgnoreTheorySolving
    \/ IgnoreQuantifier
    \/ IgnoreAllButQuantifier
    \/ ShowNamedQuantifier
    \/ Reset

SpecKinds == InitKinds /\ [][NextKinds]_vars

\* Longest-path runs: any dependency shape, then requests for the longest
\* path through a node, and resets.
InitPaths ==
    \E n \in 0..MaxPathNodes :
      \E E \in SUBSET EdgePairs(n) :
        New(Dependencies(n, E, [i \in 0..n - 1 |-> 1], [i \in 0..n - 1 |-> FALSE], 0))

\* Filter::ShowLongestPath(nidx): the path is the filter's output.
ShowLongestPath ==
    \E nidx \in NodeIds(orig_graph) :
        /\ ~panicked
        /\ orig_graph' = ShowLongestPathThrough(orig_graph, nidx).graph
        /\ fresh_graph' = ShowLongestPathThrough(fresh_graph, nidx).graph
        /\ last' = [kind |-> "ShowLongestPath", retain |-> FALSE,
                    changed |-> VisibleSet(orig_graph') # VisibleSet(orig_graph),
                    output |-> LongestPath(ShowLongestPathThrough(orig_graph, nidx).path),
                    node |-> {nidx}, disablers |-> {}]
        /\ UNCHANGED <<parser, visible_graph, panicked, was_reset, filters_state, msgs,
                       stats, generation>>

NextPaths == ShowLongestPath \/ Reset

SpecPaths == InitPaths /\ [][NextPaths]_vars

\* The filters that name a node.
NodeFilterKinds == {"ShowNeighbours", "VisitSubTreeWithRoot", "VisitSourceTree", "ShowLongestPath"}

\* What Filter::apply can do with a node index that is not in the raw graph.
\* The subtree filters start petgraph's Dfs at the index, whose visit map has
\* one bit per node: marking the start node panics.  ShowNeighbours and
\* ShowLongestPath hand the index to RawInstGraph, which either panics on
\* indexing or finds nothing and returns; then Filter::apply returns its
\* normal output.  FilterOutput has no variant for an error.
MissingNodeOutcomes(kind) ==
    IF kind \in {"VisitSubTreeWithRoot", "VisitSourceTree"} THEN {Panic}
    ELSE IF kind = "ShowLongestPath" THEN {Panic, LongestPath(<<>>)}
    ELSE {Panic, NoOutput}

\* Filter::apply of a filter whose node is not in the raw graph.
ApplyMissingNode ==
    \E kind \in NodeFilterKinds, nidx \in NodeCount(orig_graph)..NodeCount(orig_graph) + 1 :
      \E outcome \in MissingNodeOutcomes(kind) :
        /\ ~panicked
        /\ panicked' = (outcome = Panic)
        /\ last' = [kind |-> kind, retain |-> FALSE, changed |-> FALSE,
                    output |-> outcome, node |-> {nidx}, disablers |-> {}]
        /\ UNCHANGED <<parser, orig_graph, visible_graph, fresh_graph, was_reset,
                       filters_state, msgs, stats, generation>>

NextMissing == ApplyMissingNode \/ VisitSubTreeWithRoot \/ Reset

SpecMissing == Init /\ [][NextMissing]_vars

\* Materialisation runs: a raw graph with any set of nodes hidden (a chain of
\* filters hides any chosen set of instantiations), then rendered.
InitVisible ==
    \E n \in 0..MaxVisNodes :
      \E E \in SUBSET EdgePairs(n), hidden \in SUBSET (0..n - 1) :
        /\ Cardinality(E) <= MaxVisEdges
        /\ parser = Dependencies(n, E, [i \in 0..n - 1 |-> 1], [i \in 0..n - 1 |-> FALSE], 0)
        /\ orig_graph = SetVisibilityMany(ComputeInstantiationGraph(parser), TRUE, hidden)
        /\ visible_graph = CloneAsVisible(orig_graph)
        /\ stats = [generation |-> 0]
        /\ generation = stats.generation
        /\ fresh_graph = orig_graph
        /\ panicked = FALSE
        /\ last = [kind |-> "New", retain |-> FALSE, changed |-> FALSE,
            output |-> NoOutput, node |-> {}, disablers |-> {}]
    /\ was_reset = FALSE
    /\ filters_state = Create
    /\ msgs = <<>>

NextVisible == Render \/ Reset

SpecVisible == InitVisible /\ [][NextVisible]_vars

(* ------------------------------- sidebar ------------------------------- *)

\* The filters the user adds in the sidebar runs.
AddedFilters ==
    {Op("MaxInsts", 0, 0, FALSE, "Outgoing"), Op("MaxInsts", 1, 0, FALSE, "Outgoing"),
     Op("MaxNodeIdx", 1, 0, FALSE, "Outgoing")}

\* Sidebar runs: any dependency shape over instantiations of either kind; the
\* new sidebar has sent the disablers and the first re-render.
InitSidebar ==
    \E n \in 0..MaxSidebarNodes :
      \E E \in SUBSET EdgePairs(n), theory \in [0..n - 1 -> BOOLEAN] :
        /\ NewGraph(Dependencies(n, E, [i \in 0..n - 1 |-> 1], theory, 0))
        /\ filters_state = Create
        /\ msgs = ResetDisabledMsgs(Create)

\* Msg::AddFilter(edit, filter), sent by the user once the graph has handled
\* what was sent before.
AddFilter ==
    \E edit \in BOOLEAN, filter \in AddedFilters :
        /\ ~panicked
        /\ msgs = <<>>
        /\ Len(filters_state.filter_chain) < MaxChain
        /\ LET pushed == [filters_state EXCEPT
                             !.prev_filter_chain = filters_state.filter_chain,
                             !.edit_filter = IF edit THEN {Len(filters_state.filter_chain)} ELSE {},
                             !.filter_chain = Append(filters_state.filter_chain, filter)]
               sent == SendUpdates(pushed, TRUE)
           IN IF edit
              THEN filters_state' = pushed /\ msgs' = msgs
              ELSE filters_state' = sent.state /\ msgs' = msgs \o sent.sent
        /\ UNCHANGED <<parser, orig_graph, visible_graph, panicked, fresh_graph, last, was_reset,
                       stats, generation>>

\* SVGMsg::SetDisabled(many): Disabler::apply on the session's graph.
SetDisabled(many) ==
    /\ ~panicked
    /\ orig_graph' = DisablerApply(many, orig_graph)
    /\ last' = [kind |-> "SetDisabled", retain |-> FALSE,
                changed |-> VisibleSet(orig_graph') # VisibleSet(orig_graph),
                output |-> NoOutput, node |-> {}, disablers |-> many]
    /\ UNCHANGED <<parser, visible_graph, panicked, fresh_graph, was_reset, generation>>

\* Variant: the flags are written without a new generation.
SameGeneration(raw_stats) == raw_stats

\* raw.stats.generation after the flags have been written: reset and every
\* filter give the raw graph a new generation.
NextGeneration(raw_stats) == [raw_stats EXCEPT !.generation = @ + 1]

\* The graph handles the oldest message.
Deliver ==
    /\ msgs # <<>>
    /\ msgs' = Tail(msgs)
    /\ UNCHANGED filters_state
    /\ LET msg == Head(msgs)
       IN \/ msg.kind = "ResetGraph" /\ ResetGraph /\ stats' = NextGeneration(stats)
          \/ /\ msg.kind = "ApplyFilter"
             /\ \E filter \in msg.payload : ApplyFilter(filter)
             /\ stats' = NextGeneration(stats)
          \/ msg.kind = "RenderGraph" /\ RenderGraph /\ UNCHANGED stats
          \/ msg.kind = "SetDisabled" /\ SetDisabled(msg.payload) /\ UNCHANGED stats

NextSidebar == AddFilter \/ Deliver

SpecSidebar == InitSidebar /\ [][NextSidebar]_vars

\* Msg::ToggleDisabler(idx), sent by the user once the graph has handled what
\* was sent before: the disabler is switched and reset_disabled sends the
\* enabled ones and a re-render.
ToggleDisabler ==
    /\ ~panicked
    /\ msgs = <<>>
    /\ stats.generation < MaxGeneration
    /\ \E idx \in 1..Len(filters_state.disabler_chain) :
         LET state == [filters_state EXCEPT !.disabler_chain[idx].enabled = ~@]
         IN /\ filters_state' = state
            /\ msgs' = ResetDisabledMsgs(state)
    /\ UNCHANGED <<parser, orig_graph, visible_graph, panicked, fresh_graph, last,
                   was_reset, stats, generation>>

\* The runs over toggled disablers: a graph of nodes of every kind under the
\* sidebar, whose filter chain stays the default one.
InitToggle ==
    \E n \in 0..MaxSidebarNodes :
      \E E \in SUBSET EdgePairs(n), choice \in [0..n - 1 -> ShapeChoices] :
        /\ NewGraph(DependenciesOfShape(n, E, choice, 0))
        /\ filters_state = Create
        /\ msgs = ResetDisabledMsgs(Create)

NextToggle == ToggleDisabler \/ Deliver

SpecToggle == InitToggle /\ [][NextToggle]_vars

(* --------------------------- sidebar messages -------------------------- *)

\* What FiltersState::update leaves behind: the state, the messages handed to
\* file.send_updates, and the value returned.
Handled(state, sent, result) == [state |-> state, sent |-> sent, result |-> result]

\* Vec::remove(idx) and Vec::swap(a, b), the indices counting from 0.
Remove(seq, idx) == [j \in 1..Len(seq) - 1 |-> IF j <= idx THEN seq[j] ELSE seq[j + 1]]

Swap(seq, a, b) == [seq EXCEPT ![a + 1] = seq[b + 1], ![b + 1] = seq[a + 1]]

\* DragState: where the drag started, where it is, and whether it ends on the
\* delete area.
DragState(start_idx, idx, delete) == [start_idx |-> start_idx, idx |-> idx, delete |-> delete]

\* Msg::WillDelete(will_delete).
UpdateWillDelete(state, will_delete) ==
    Handled([state EXCEPT !.will_delete = will_delete], <<>>,
            state.will_delete # will_delete)

\* Msg::Drag(drag): None starts a drag, Some(drag) ends it.
UpdateDrag(state, drag) ==
    LET flags == [state EXCEPT !.dragging = (drag = {}), !.will_delete = FALSE]
    IN IF drag = {} THEN Handled(flags, <<>>, TRUE)
       ELSE LET d == CHOOSE d \in drag : TRUE
                moved == [flags EXCEPT !.filter_chain =
                             IF d.delete THEN Remove(flags.filter_chain, d.start_idx)
                             ELSE Swap(flags.filter_chain, d.start_idx, d.idx)]
                updates == SendUpdates(moved, TRUE)
            IN Handled(updates.state, updates.sent, TRUE)

\* Msg::ResetOperations.
UpdateResetOperations(state) ==
    LET updates == SendUpdates([state EXCEPT !.filter_chain = DEFAULT_FILTER_CHAIN], TRUE)
    IN Handled(updates.state, updates.sent, updates.result)

\* Variant: the undo is sent without being recorded as a step to undo.
UpdateUndoOperationNoHistory(state) ==
    LET updates == SendUpdates([state EXCEPT !.filter_chain = state.prev_filter_chain], FALSE)
    IN Handled(updates.state, updates.sent, updates.result)

\* Msg::UndoOperation.
UpdateUndoOperation(state) ==
    LET updates == SendUpdates([state EXCEPT !.filter_chain = state.prev_filter_chain], TRUE)
    IN Handled(updates.state, updates.sent, updates.result)

\* Msg::SelectFilter(idx).
UpdateSelectFilter(state, idx) ==
    Handled([state EXCEPT !.edit_filter = {},
                          !.selected_filter = IF state.selected_filter = {idx} THEN {}
                                              ELSE {idx}],
            <<>>, TRUE)

\* Msg::Delete(idx).
UpdateDelete(state, idx) ==
    LET updates == SendUpdates([state EXCEPT !.edit_filter = {}, !.selected_filter = {},
                                             !.filter_chain = Remove(state.filter_chain, idx)],
                               TRUE)
    IN Handled(updates.state, updates.sent, TRUE)

\* Msg::Edit(idx).
UpdateEdit(state, idx) ==
    Handled([state EXCEPT !.selected_filter = {}, !.edit_filter = {idx}], <<>>, TRUE)

\* Msg::EndEdit(idx, filter).
UpdateEndEdit(state, idx, filter) ==
    LET modified == state.edit_filter = {idx}
        updates == SendUpdates([state EXCEPT
                                   !.edit_filter = IF modified THEN {} ELSE state.edit_filter,
                                   !.filter_chain[idx + 1] = filter],
                               TRUE)
    IN Handled(updates.state, updates.sent, updates.result \/ modified)

\* Msg::AddFilter(edit, filter).
UpdateAddFilter(state, edit, filter) ==
    LET pushed == [state EXCEPT
                      !.prev_filter_chain = state.filter_chain,
                      !.edit_filter = IF edit THEN {Len(state.filter_chain)} ELSE {},
                      !.filter_chain = Append(state.filter_chain, filter)]
        updates == SendUpdates(pushed, TRUE)
    IN IF edit THEN Handled(pushed, <<>>, TRUE)
       ELSE Handled(updates.state, updates.sent, TRUE)

\* Msg::ToggleDisabler(idx).
UpdateToggleDisabler(state, idx) ==
    LET toggled == [state EXCEPT !.disabler_chain[idx + 1].enabled = ~@]
    IN Handled(toggled, ResetDisabledMsgs(toggled), FALSE)

\* The filters the user adds or writes over another in the runs over the
\* sidebar's messages.
EditedFilters == {Op("MaxNodeIdx", 1, 0, FALSE, "Outgoing")}

\* The sidebar has handled a message: msgs holds what the handler sent, which
\* the graph takes as one batch, and last names the message.
Update(kind, idxs, handled) ==
    /\ filters_state' = handled.state
    /\ msgs' = handled.sent
    /\ last' = [kind |-> kind, retain |-> FALSE, changed |-> FALSE,
                output |-> NoOutput, node |-> {}, disablers |-> {}]
    /\ UNCHANGED <<parser, orig_graph, visible_graph, panicked, fresh_graph, was_reset,
                   stats, generation>>

\* The indices the view offers: those of the filters of the current chain.
ChainIdxs == 0..Len(filters_state.filter_chain) - 1

MsgWillDelete ==
    \E will_delete \in BOOLEAN :
        Update("WillDelete", {}, UpdateWillDelete(filters_state, will_delete))

MsgDrag ==
    \/ Update("Drag", {}, UpdateDrag(filters_state, {}))
    \/ \E start_idx \in ChainIdxs, idx \in ChainIdxs, delete \in BOOLEAN :
          Update("Drag", {start_idx},
                 UpdateDrag(filters_state, {DragState(start_idx, idx, delete)}))

MsgResetOperations == Update("ResetOperations", {}, UpdateResetOperations(filters_state))

MsgUndoOperation == Update("UndoOperation", {}, UpdateUndoOperation(filters_state))

MsgSelectFilter ==
    \E idx \in ChainIdxs : Update("SelectFilter", {idx}, UpdateSelectFilter(filters_state, idx))

MsgDelete == \E idx \in ChainIdxs : Update("Delete", {idx}, UpdateDelete(filters_state, idx))

MsgEdit == \E idx \in ChainIdxs : Update("Edit", {idx}, UpdateEdit(filters_state, idx))

MsgEndEdit ==
    \E idx \in ChainIdxs, filter \in EditedFilters :
        Update("EndEdit", {idx}, UpdateEndEdit(filters_state, idx, filter))

MsgAddFilter ==
    \E edit \in BOOLEAN, filter \in EditedFilters :
        /\ Len(filters_state.filter_chain) < MaxChain
        /\ Update("AddFilter", {}, UpdateAddFilter(filters_state, edit, filter))

MsgToggleDisabler ==
    \E idx \in 0..Len(filters_state.disabler_chain) - 1 :
        Update("ToggleDisabler", {idx}, UpdateToggleDisabler(filters_state, idx))

\* A new sidebar, which has sent the disablers and the first re-render.
InitUpdate ==
    /\ NewGraph(<<>>)
    /\ filters_state = Create
    /\ msgs = ResetDisabledMsgs(Create)

\* The runs over the editing of the chain: every message but the toggling of
\* a disabler, which leaves the chains and the indices alone.
NextUpdate ==
    \/ MsgWillDelete
    \/ MsgDrag
    \/ MsgResetOperations
    \/ MsgUndoOperation
    \/ MsgSelectFilter
    \/ MsgDelete
    \/ MsgEdit
    \/ MsgEndEdit
    \/ MsgAddFilter

SpecUpdate == InitUpdate /\ [][NextUpdate]_vars

\* The runs over what the sidebar sends: the messages whose handlers call
\* send_updates or reset_disabled.
NextMessages ==
    \/ MsgDrag
    \/ MsgResetOperations
    \/ MsgUndoOperation
    \/ MsgDelete
    \/ MsgEndEdit
    \/ MsgAddFilter
    \/ MsgToggleDisabler

SpecMessages == InitUpdate /\ [][NextMessages]_vars

\* The runs over construction: the graph is built from any dependency list,
\* and built again by a reset.
InitBuild == \E deps \in DependencyLists : New(deps)

NextBuild == Reset

SpecBuild == InitBuild /\ [][NextBuild]_vars

\* The runs over disablers: a graph of nodes of every kind, some of them hidden
\* by a filter or none, marked once by any set of disablers.
KindChoices == ShapeChoices \ {[kind |-> "Instantiation", match_kind |-> TheorySolving]}

InitDisablers ==
    \E n \in 0..MaxDisablerNodes :
      \E E \in SUBSET EdgePairs(n), choice \in [0..n - 1 -> KindChoices] :
        New(DependenciesOfShape(n, E, choice, 0))

SetDisabledOnce ==
    /\ last.kind # "SetDisabled"
    /\ \E many \in SUBSET Disablers : SetDisabled(many)
    /\ UNCHANGED <<filters_state, msgs, stats>>

NextDisablers == (last.kind = "New" /\ MaxNodeIdx) \/ SetDisabledOnce

SpecDisablers == InitDisablers /\ [][NextDisablers]_vars

(* --------------------- the flag-based InstGraph ------------------------ *)

\* Largest number of nodes of a dependency chain in the runs of
\* retain_visible_nodes_and_reconnect, and the largest number of edges added
\* to the chain.
MaxRetainChain == 5

MaxRetainExtra == 1

\* orig_graph.clone() as the visible graph of the flag-based InstGraph: node
\* weights and edge weights copied, every edge Direct.
CloneGraph(g) ==
    [nodes |-> [k \in 1..NodeCount(g) |-> g.nodes[k - 1]],
     edges |-> [e \in EdgeIds(g) |->
                  [source |-> g.edges[e].source, target |-> g.edges[e].target,
                   edge_type |-> "Direct"]]]

\* orig_graph.filter_map: the visible nodes, renumbered in index order, and the
\* edges whose two ends are kept, in edge order.
FilterMapVisible(g) ==
    LET order == Ascending(VisibleSet(g))
        kept == Ascending({e \in EdgeIds(g) :
                    g.nodes[g.edges[e].source].visible /\ g.nodes[g.edges[e].target].visible})
    IN [nodes |-> [k \in 1..Len(order) |-> g.nodes[order[k]]],
        edges |-> [k \in 1..Len(kept) |->
                     [source |-> VisibleIndex(g, g.edges[kept[k]].source),
                      target |-> VisibleIndex(g, g.edges[kept[k]].target),
                      edge_type |-> "Direct"]]]

NewNodeIds(new) == 0..Len(new.nodes) - 1

\* Nodes with missing children: fewer outgoing edges than child_count.
OutSet(new) ==
    {node \in NewNodeIds(new) :
        Cardinality({e \in DOMAIN new.edges : new.edges[e].source = node})
            < new.nodes[node + 1].child_count}

\* Nodes with missing parents: fewer incoming edges than parent_count.
InSet(new) ==
    {node \in NewNodeIds(new) :
        Cardinality({e \in DOMAIN new.edges : new.edges[e].target = node})
            < new.nodes[node + 1].parent_count}

\* petgraph::algo::has_path_connecting over the original graph.
HasPathConnecting(g, from, to) == to \in DfsForward(g, {from})

\* The pairs (u, v) of out_set x in_set joined by a path of the original graph.
IndirectPairs(g, new) ==
    {pair \in OutSet(new) \X InSet(new) :
        LET old_u == new.nodes[pair[1] + 1].orig_graph_idx
            old_v == new.nodes[pair[2] + 1].orig_graph_idx
        IN old_u # old_v /\ HasPathConnecting(g, old_u, old_v)}

\* The orders petgraph::algo::toposort can return for the nodes S under the
\* pairs E: every edge goes from an earlier node to a later one.
RECURSIVE Toposorts(_, _)
Toposorts(S, E) ==
    IF S = {} THEN {<<>>}
    ELSE UNION {{<<x>> \o rest : rest \in Toposorts(S \ {x}, E)} :
                  x \in {y \in S : \A pair \in E : pair[2] = y => pair[1] \notin S}}

\* The nodes reachable from seen over the pairs E.
RECURSIVE ReachableOver(_, _)
ReachableOver(E, seen) ==
    LET next == seen \cup {pair[2] : pair \in {q \in E : q[1] \in seen}}
    IN IF next = seen THEN seen ELSE ReachableOver(E, next)

\* Variant: the indirect edges are added as they are, without reduction.
NoReduction(E) == E

\* dag_transitive_reduction_closure: the pairs of a DAG not implied by a longer
\* path.
TransitiveReduction(E) == {pair \in E : pair[2] \notin ReachableOver(E \ {pair}, {pair[1]})}

Rank(toposorted_dag, node) == CHOOSE k \in DOMAIN toposorted_dag : toposorted_dag[k] = node

\* tred.edge_references() mapped back through toposorted_dag: the reduced pairs
\* by topological rank of source, then of target.
IndirectOfReduction(tred, toposorted_dag) ==
    LET n == Len(toposorted_dag)
        keys == Ascending({Rank(toposorted_dag, pair[1]) * (n + 1) + Rank(toposorted_dag, pair[2]) :
                             pair \in tred})
    IN [k \in 1..Len(keys) |->
          [source |-> toposorted_dag[keys[k] \div (n + 1)],
           target |-> toposorted_dag[keys[k] % (n + 1)],
           edge_type |-> "Indirect"]]

\* InstGraph::retain_visible_nodes_and_reconnect, for the order toposort gave.
RetainVisibleNodesAndReconnect(g, toposorted_dag) ==
    LET new_inst_graph == FilterMapVisible(g)
        direct_edges == new_inst_graph.edges
        tred == TransitiveReduction(IndirectPairs(g, new_inst_graph))
    IN [nodes |-> new_inst_graph.nodes,
        edges |-> direct_edges \o IndirectOfReduction(tred, toposorted_dag)]

\* The call of retain_visible_nodes_and_reconnect.
RetainVisible ==
    /\ ~panicked
    /\ \E toposorted_dag \in Toposorts(NewNodeIds(FilterMapVisible(orig_graph)),
                                      IndirectPairs(orig_graph, FilterMapVisible(orig_graph))) :
          visible_graph' = RetainVisibleNodesAndReconnect(orig_graph, toposorted_dag)
    /\ last' = [kind |-> "RetainVisible", retain |-> FALSE, changed |-> FALSE,
                output |-> NoOutput, node |-> {}, disablers |-> {}]
    /\ UNCHANGED <<parser, orig_graph, panicked, fresh_graph, was_reset, filters_state,
                   msgs, stats, generation>>

\* A flag-based InstGraph built from the dependencies, with the nodes of
\* hidden rejected by retain_nodes.
Retained(deps, hidden) ==
    /\ parser = deps
    /\ orig_graph = RetainNodes(ComputeInstantiationGraph(deps),
                                NodeIds(ComputeInstantiationGraph(deps)) \ hidden)
    /\ visible_graph = CloneGraph(ComputeInstantiationGraph(deps))
    /\ stats = [generation |-> 0]
    /\ generation = stats.generation
    /\ fresh_graph = ComputeInstantiationGraph(deps)
    /\ panicked = FALSE
    /\ last = [kind |-> "New", retain |-> FALSE, changed |-> FALSE,
               output |-> NoOutput, node |-> {}, disablers |-> {}]
    /\ was_reset = FALSE
    /\ filters_state = Create
    /\ msgs = <<>>

\* The runs of retain_visible_nodes_and_reconnect: any dependency shape, or a
\* dependency chain with some more edges, and any set of nodes hidden.
InitRetain ==
    \/ \E n \in 0..MaxVisNodes :
         \E E \in SUBSET EdgePairs(n), hidden \in SUBSET (0..n - 1) :
           /\ Cardinality(E) <= MaxVisEdges
           /\ Retained(Dependencies(n, E, [i \in 0..n - 1 |-> 1], [i \in 0..n - 1 |-> FALSE], 0),
                       hidden)
    \/ \E n \in 0..MaxRetainChain :
         \E extra \in SUBSET (EdgePairs(n) \ Chain(n)), hidden \in SUBSET (0..n - 1) :
           /\ Cardinality(extra) <= MaxRetainExtra
           /\ Retained(Dependencies(n, Chain(n) \cup extra, [i \in 0..n - 1 |-> 1],
                                    [i \in 0..n - 1 |-> FALSE], 0),
                       hidden)

NextRetain == RetainVisible

SpecRetain == InitRetain /\ [][NextRetain]_vars

(* ---------------------------- term ids -------------------------------- *)

\* Largest id number of the ID strings registered, and the largest TermIdx.
MaxIdNumber == 1

MaxTermIdx == 1

\* The namespaces of the ID strings: the empty one and another.
Namespaces == {"", "k"}

\* TermId::parse of the ID string namespace#number (number = {} for
\* `name#`): the id is None or the number plus one.
Parse(namespace, number) ==
    [namespace |-> namespace,
     id |-> IF number = {} THEN {} ELSE {n + 1 : n \in number}]

\* The ids ID strings of the bounds parse to.
TermIds == {Parse(namespace, {}) : namespace \in Namespaces}
              \cup {Parse(namespace, {n}) : namespace \in Namespaces, n \in 0..MaxIdNumber}

\* TermId::order: 0 for an id without a number.
Order(id) == IF id.id = {} THEN 0 ELSE CHOOSE n \in id.id : TRUE

\* TermIdToIdxMap::new.
TermIdToIdxMapNew == [empty_namespace |-> <<>>, namespace_map |-> <<>>]

\* get_vec_mut: the vector of the namespace, created empty when missing.
GetVecMut(map, namespace) ==
    IF namespace = "" THEN map.empty_namespace
    ELSE IF namespace \in DOMAIN map.namespace_map THEN map.namespace_map[namespace]
    ELSE <<>>

\* The map with the vector of the namespace replaced.
WithVec(map, namespace, vec) ==
    IF namespace = "" THEN [map EXCEPT !.empty_namespace = vec]
    ELSE [map EXCEPT !.namespace_map =
            [n \in DOMAIN map.namespace_map \cup {namespace} |->
                IF n = namespace THEN vec ELSE map.namespace_map[n]]]

\* vec.resize(new_len, None) when id_idx is past the end.
Resized(vec, id_idx) ==
    IF id_idx >= Len(vec) THEN vec \o [k \in 1..id_idx + 1 - Len(vec) |-> {}] ELSE vec

\* Variant: an id registered before keeps its first TermIdx.
RegisterTermKeepFirst(map, id, idx) ==
    LET id_idx == Order(id)
        vec == Resized(GetVecMut(map, id.namespace), id_idx)
    IN WithVec(map, id.namespace,
               IF vec[id_idx + 1] = {} THEN [vec EXCEPT ![id_idx + 1] = {idx}] ELSE vec)

\* TermIdToIdxMap::register_term.
RegisterTerm(map, id, idx) ==
    LET id_idx == Order(id)
        vec == Resized(GetVecMut(map, id.namespace), id_idx)
    IN WithVec(map, id.namespace, [vec EXCEPT ![id_idx + 1] = {idx}])

\* get_vec: the vector of the namespace, if there is one ({} for None).
GetVec(map, namespace) ==
    IF namespace = "" THEN {map.empty_namespace}
    ELSE IF namespace \in DOMAIN map.namespace_map THEN {map.namespace_map[namespace]}
    ELSE {}

\* TermIdToIdxMap::get_term ({} for None).
GetTerm(map, id) ==
    UNION {IF Order(id) + 1 \in DOMAIN vec THEN vec[Order(id) + 1] ELSE {} :
             vec \in GetVec(map, id.namespace)}

\* A parser that has registered no term; last.latest records, for every id,
\* the TermIdx of the latest call of register_term with it, and last.replaced
\* whether the latest call came after a call with the same id and another
\* TermIdx.
InitTerms ==
    /\ parser = TermIdToIdxMapNew
    /\ orig_graph = EmptyGraph
    /\ visible_graph = CloneAsVisible(orig_graph)
    /\ stats = [generation |-> 0]
    /\ generation = stats.generation
    /\ fresh_graph = orig_graph
    /\ panicked = FALSE
    /\ last = [kind |-> "TermIdToIdxMap::new", replaced |-> FALSE,
               latest |-> [id \in TermIds |-> {}]]
    /\ was_reset = FALSE
    /\ filters_state = Create
    /\ msgs = <<>>

\* A call of register_term.
Register ==
    /\ \E id \in TermIds, idx \in 0..MaxTermIdx :
          /\ parser' = RegisterTerm(parser, id, idx)
          /\ last' = [kind |-> "register_term",
                      replaced |-> last.latest[id] \notin {{}, {idx}},
                      latest |-> [last.latest EXCEPT ![id] = {idx}]]
    /\ UNCHANGED <<orig_graph, visible_graph, panicked, fresh_graph, was_reset, filters_state,
                   msgs, stats, generation>>

NextTerms == Register

SpecTerms == InitTerms /\ [][NextTerms]_vars

(* ------------------------------- claims -------------------------------- *)

G == orig_graph

Hidden(i) == ~G.nodes[i].visible

\* The raw graph has a path of at most k edges from a to b.
RECURSIVE PathWithin(_, _, _)
PathWithin(a, b, k) ==
    \/ a = b
    \/ k > 0 /\ \E e \in OutEdges(G, a) : PathWithin(G.edges[e].target, b, k - 1)

\* b is a itself or reachable forward from a.
Reaches(a, b) == PathWithin(a, b, NodeCount(G))

DescendantClosure(node) == {d \in NodeIds(G) : Reaches(node, d)}

AncestorClosure(node) == {a \in NodeIds(G) : Reaches(a, node)}

Rendered == last.kind = "Render"

\* The raw paths (edge sequences) from x to D whose nodes strictly between
\* x and D are all hidden.
RECURSIVE HiddenPathsFrom(_, _)
HiddenPathsFrom(x, D) ==
    UNION {IF G.edges[e].target = D THEN {<<e>>}
           ELSE IF Hidden(G.edges[e].target)
                THEN {<<e>> \o p : p \in HiddenPathsFrom(G.edges[e].target, D)}
                ELSE {} : e \in OutEdges(G, x)}

\* ... with at least one hidden node in between.
HiddenPaths(A, D) == {p \in HiddenPathsFrom(A, D) : Len(p) >= 2}

\* D is reachable from A over visible nodes only.
RECURSIVE VisibleReach(_)
VisibleReach(seen) ==
    LET next == seen \cup {c \in UNION {Children(G, n) : n \in seen} : ~Hidden(c)}
    IN IF next = seen THEN seen ELSE VisibleReach(next)

VisibleOnlyPath(A, D) == \E c \in Children(G, A) : ~Hidden(c) /\ D \in VisibleReach({c})

\* The Indirect edges A -> D of the materialised graph (A, D raw indices).
IndirectEdges(A, D) ==
    {k \in DOMAIN visible_graph.edges :
        /\ visible_graph.edges[k].indirect
        /\ visible_graph.edges[k].source = VisibleIndex(G, A)
        /\ visible_graph.edges[k].target = VisibleIndex(G, D)}

DirectEdgesBetween(A, D) ==
    {k \in DOMAIN visible_graph.edges :
        /\ ~visible_graph.edges[k].indirect
        /\ visible_graph.edges[k].source = VisibleIndex(G, A)
        /\ visible_graph.edges[k].target = VisibleIndex(G, D)}

VisiblePairs == {pair \in VisibleSet(G) \X VisibleSet(G) : pair[1] # pair[2]}

Intermediates(p) == {G.edges[p[k]].target : k \in 1..Len(p) - 1}

BehindVisible(p) ==
    UNION {DescendantClosure(s) : s \in {v \in DescendantClosure(G.edges[p[1]].target) : ~Hidden(v)}}

FrontierPaths(A, D) == {p \in HiddenPaths(A, D) : Intermediates(p) \cap BehindVisible(p) = {}}

EdgesBetween(a, b) == {e \in EdgeIds(G) : G.edges[e].source = a /\ G.edges[e].target = b}

\* A -> B -> C -> D with A, D visible and B, C hidden, each with one parent and
\* one child; B is the only child of A and C the only parent of D.
IsHiddenChain(A, B, C, D) ==
    /\ ~Hidden(A) /\ ~Hidden(D) /\ Hidden(B) /\ Hidden(C)
    /\ Children(G, A) = {B} /\ Parents(G, B) = {A}
    /\ Children(G, B) = {C} /\ Parents(G, C) = {B}
    /\ Children(G, C) = {D} /\ Parents(G, D) = {C}

\* C2: for a raw chain A -> B -> C -> D with A, D visible and B, C hidden with
\* one parent and one child each, to_visible yields exactly one Indirect edge
\* A -> D and no Direct edge A -> D, and the edge's path lists the raw edges
\* A -> B, B -> C, C -> D in that order.
C2_ChainPath ==
    Rendered =>
        \A A \in NodeIds(G), B \in NodeIds(G), C \in NodeIds(G), D \in NodeIds(G) :
            IsHiddenChain(A, B, C, D) =>
                /\ Cardinality(IndirectEdges(A, D)) = 1
                /\ DirectEdgesBetween(A, D) = {}
                /\ \A k \in IndirectEdges(A, D) :
                      /\ Len(visible_graph.edges[k].path) = 3
                      /\ visible_graph.edges[k].path[1] \in EdgesBetween(A, B)
                      /\ visible_graph.edges[k].path[2] \in EdgesBetween(B, C)
                      /\ visible_graph.edges[k].path[3] \in EdgesBetween(C, D)

\* The chain 0 -> 1 -> 2 -> 3 with 1 and 2 hidden, rendered with its one edge.
C2_Witness ==
    /\ Rendered
    /\ NodeCount(G) = 4
    /\ IsHiddenChain(0, 1, 2, 3)
    /\ Len(visible_graph.edges) = 1
    /\ visible_graph.edges[1].indirect

Visible == VisibleSet(orig_graph)

FilterKinds ==
    {"MaxNodeIdx", "MinNodeIdx", "IgnoreTheorySolving", "MaxInsts", "MaxDepth",
     "ShowNeighbours", "VisitSubTreeWithRoot", "VisitSourceTree"}

Applied(filter) ==
    /\ last'.kind = filter.kind
    /\ last'.retain = filter.retain
    /\ orig_graph' = FilterApply(filter, orig_graph).graph

NarrowingKinds == {"MaxNodeIdx", "MinNodeIdx", "IgnoreTheorySolving", "MaxInsts", "MaxDepth"}

\* C4: a MaxNodeIdx, MinNodeIdx, IgnoreTheorySolving, MaxInsts or MaxDepth
\* filter never makes a hidden node visible: the visible set after the step is
\* a subset of the visible set before it (so the set after a chain of them is
\* a subset of the set after every prefix).
C4_MonotonicNarrowing ==
    [][last'.kind \in NarrowingKinds => VisibleSet(orig_graph') \subseteq Visible]_vars

\* A MaxDepth filter hid nodes that earlier filters of the chain had left.
C4_Witness ==
    /\ last.kind = "MaxDepth" /\ last.changed
    /\ Visible # {}
    /\ \E i \in NodeIds(orig_graph) \ Visible : FwdDepthMin(orig_graph, i) = 0
    /\ \E i \in NodeIds(orig_graph) \ Visible : FwdDepthMin(orig_graph, i) = 2

\* C5: the flags reached by reset + chain are those a newly built graph reaches
\* under the same chain, whatever was applied before the reset.
C5_ChainDeterminism == orig_graph.nodes = fresh_graph.nodes

\* After a reset that undid earlier hides, a filter has hidden nodes again.
C5_Witness ==
    /\ was_reset
    /\ last.kind \in FilterKinds /\ last.changed
    /\ Visible # NodeIds(orig_graph)
    /\ Visible # {}

\* j comes before i in the cost-rank order: costlier, or as costly with a lower index.
RanksBefore(g, j, i) ==
    \/ g.nodes[j].cost > g.nodes[i].cost
    \/ g.nodes[j].cost = g.nodes[i].cost /\ j < i

\* The n nodes of S that come first in the cost-rank order (all of S if fewer).
FirstByCost(g, S, n) == {i \in S : Cardinality({j \in S : RanksBefore(g, j, i)}) < n}

\* C6: after MaxInsts(n) the visible nodes are exactly the n previously visible
\* nodes that come first in the cost-rank order (ties: lower index first).
C6_MaxInstsKeepsFirstN ==
    [][\A n \in 0..NodeCount(orig_graph) :
          Applied(Op("MaxInsts", n, 0, FALSE, "Outgoing"))
              => VisibleSet(orig_graph') = FirstByCost(orig_graph, Visible, n)]_vars

C8_MaxInstsRepeatable ==
    \A n \in 0..NodeCount(orig_graph) :
        LET first == KeepNMostCostly(orig_graph, n)
        IN ~first.panicked => KeepNMostCostly(first.graph, n) = first

\* MaxInsts has hidden some nodes and kept others.
C8_Witness ==
    /\ last.kind = "MaxInsts" /\ last.changed
    /\ ~panicked
    /\ Visible # {}
    /\ \E i \in NodeIds(orig_graph) \ Visible : \E j \in Visible : j > i

\* C9 as stated: after a subtree filter with retain = true every node outside
\* the closure (descendants, resp. ancestors, of the node) is hidden.
C9_RetainHidesRest ==
    [][\A node \in NodeIds(orig_graph) :
          /\ Applied(Op("VisitSubTreeWithRoot", 0, node, TRUE, "Outgoing"))
                => VisibleSet(orig_graph') \subseteq DescendantClosure(node)
          /\ Applied(Op("VisitSourceTree", 0, node, TRUE, "Outgoing"))
                => VisibleSet(orig_graph') \subseteq AncestorClosure(node)]_vars

\* C9 as amended: after a subtree filter with retain = true every node of the
\* closure is visible and no node outside the closure changes its flag.
C9_RetainShowsClosure ==
    [][\A node \in NodeIds(orig_graph) :
          /\ Applied(Op("VisitSubTreeWithRoot", 0, node, TRUE, "Outgoing"))
                => VisibleSet(orig_graph') = Visible \cup DescendantClosure(node)
          /\ Applied(Op("VisitSourceTree", 0, node, TRUE, "Outgoing"))
                => VisibleSet(orig_graph') = Visible \cup AncestorClosure(node)]_vars

\* A retain = true subtree filter has run: a closure of three nodes is visible
\* and a node outside it is (still) visible too.
C9_Witness ==
    /\ last.kind = "VisitSubTreeWithRoot" /\ last.retain /\ last.changed
    /\ \E node \in NodeIds(orig_graph) :
          /\ Cardinality(DescendantClosure(node)) >= 2
          /\ DescendantClosure(node) \subseteq Visible
          /\ Visible \ DescendantClosure(node) # {}

\* C10: a subtree filter with retain = false hides exactly the closure
\* (descendants, resp. ancestors, the node included) and changes no other flag.
C10_HideClosure ==
    [][\A node \in NodeIds(orig_graph) :
          /\ Applied(Op("VisitSubTreeWithRoot", 0, node, FALSE, "Outgoing"))
                => VisibleSet(orig_graph') = Visible \ DescendantClosure(node)
          /\ Applied(Op("VisitSourceTree", 0, node, FALSE, "Outgoing"))
                => VisibleSet(orig_graph') = Visible \ AncestorClosure(node)]_vars

\* A retain = false source-tree filter has hidden a node and its ancestors and
\* left another node visible.
C10_Witness ==
    /\ last.kind = "VisitSourceTree" /\ ~last.retain /\ last.changed
    /\ \E node \in NodeIds(orig_graph) :
          /\ Cardinality(AncestorClosure(node)) >= 2
          /\ AncestorClosure(node) \cap Visible = {}
          /\ Visible # {}

\* The direct neighbours of node in a direction, read off the raw edges.
DirectNeighbours(node, dir) ==
    IF dir = "Outgoing"
    THEN {d \in NodeIds(G) : \E e \in EdgeIds(G) : G.edges[e] = [source |-> node, target |-> d]}
    ELSE {d \in NodeIds(G) : \E e \in EdgeIds(G) : G.edges[e] = [source |-> d, target |-> node]}

\* C11: after ShowNeighbours(node, dir) every direct neighbour of node in
\* direction dir is visible and no other node (node itself included) changes
\* its flag: the visible set grows by exactly those neighbours.
C11_ShowNeighbours ==
    [][\A node \in NodeIds(orig_graph), dir \in {"Incoming", "Outgoing"} :
          Applied(Op("ShowNeighbours", 0, node, FALSE, dir))
              => VisibleSet(orig_graph') = Visible \cup DirectNeighbours(node, dir)]_vars

\* ShowNeighbours has made hidden parents of a still hidden node visible.
C11_Witness ==
    /\ last.kind = "ShowNeighbours" /\ last.changed
    /\ \E node \in NodeIds(orig_graph) \ Visible :
          /\ DirectNeighbours(node, "Incoming") # {}
          /\ DirectNeighbours(node, "Incoming") \subseteq Visible
          /\ DirectNeighbours(node, "Outgoing") \cap Visible = {}
          /\ DirectNeighbours(node, "Outgoing") # {}

\* The step applies the given filter through graph_filters.rs.
AppliedGraphFilters(filter) ==
    /\ last'.kind = filter.kind
    /\ orig_graph' = GraphFiltersApply(filter, orig_graph).graph

\* C12: MaxNodeIdx(n) hides every node with origin index >= n (the node with
\* index n included) and MinNodeIdx(n) every node with origin index < n; the
\* other nodes keep their flag.
C12_NodeIdxBounds ==
    [][\A n \in 0..NodeCount(orig_graph) :
          /\ AppliedGraphFilters(Op("MaxNodeIdx", n, 0, FALSE, "Outgoing"))
                => VisibleSet(orig_graph') = {i \in Visible : i < n}
          /\ AppliedGraphFilters(Op("MinNodeIdx", n, 0, FALSE, "Outgoing"))
                => VisibleSet(orig_graph') = {i \in Visible : i >= n}]_vars

\* The instantiation nodes, and the quantifier of each (empty for none).
Insts == {i \in NodeIds(G) : G.nodes[i].kind = "Instantiation"}

QuantOf(i) ==
    IF G.nodes[i].match_kind.kind = "TheorySolving" THEN {} ELSE {G.nodes[i].match_kind.quant}

\* C13: IgnoreTheorySolving hides exactly the instantiation nodes whose match
\* has no quantifier; instantiation nodes with a quantifier (MBQI and axiom
\* matches included) and the nodes that are no instantiations keep their flag.
C13_IgnoreTheorySolving ==
    [][Applied(Plain("IgnoreTheorySolving"))
          => VisibleSet(orig_graph') = Visible \ {i \in Insts : QuantOf(i) = {}}]_vars

\* IgnoreTheorySolving has hidden a node while an MBQI or axiom instantiation
\* and a node that is no instantiation stayed visible.
C13_Witness ==
    /\ last.kind = "IgnoreTheorySolving" /\ last.changed
    /\ \E i \in Visible :
          \/ G.nodes[i].kind # "Instantiation"
          \/ G.nodes[i].match_kind.kind \in {"MBQI", "Axiom"}

Named(name) ==
    {i \in Insts : \E q \in QuantOf(i) : (IF q = 2 THEN "Q" ELSE "P") = name}

\* C15 as stated: after ShowNamedQuantifier(name) the only instantiation nodes
\* left visible are those whose quantifier displays as name.
C15_OnlyNamedLeft ==
    [][\A name \in NameChoices :
          Applied(QuantOp("ShowNamedQuantifier", {}, name))
              => VisibleSet(orig_graph') \cap Insts \subseteq Named(name)]_vars

\* C15 as amended: after ShowNamedQuantifier(name) every instantiation node
\* whose quantifier displays as name is visible and no other node changes its
\* flag.
C15_NamedShown ==
    [][\A name \in NameChoices :
          Applied(QuantOp("ShowNamedQuantifier", {}, name))
              => VisibleSet(orig_graph') = Visible \cup Named(name)]_vars

\* ShowNamedQuantifier has shown a hidden instantiation of the named
\* quantifier beside a visible instantiation of another name.
C15_Witness ==
    /\ last.kind = "ShowNamedQuantifier" /\ last.changed
    /\ \E name \in NameChoices :
          /\ Named(name) # {}
          /\ Named(name) \subseteq Visible
          /\ (Visible \cap Insts) \ Named(name) # {}

\* The non-empty sets of nodes that, taken by rising index, follow raw edges
\* (a dependency points from a lower index to a higher one).
RawPaths ==
    {S \in SUBSET NodeIds(G) :
        /\ S # {}
        /\ \A a \in S : \/ \A b \in S : b <= a
                        \/ \E b \in Children(G, a) \cap S :
                              \A c \in S : c <= a \/ c >= b}

OnPath(path) == {path[j] : j \in 1..Len(path)}

IsDiamondAt(node) ==
    /\ NodeCount(G) = 4
    /\ node = 3
    /\ {<<G.edges[e].source, G.edges[e].target>> : e \in EdgeIds(G)}
         = {<<0, 1>>, <<0, 2>>, <<1, 3>>, <<2, 3>>}

C17_MissingNodeIsError ==
    [][(\E nidx \in last'.node : nidx \notin NodeIds(G)) =>
          /\ ~panicked'
          /\ last'.output.kind \notin {"None", "LongestPath", "MatchingLoopGeneralizedTerms", "Panic"}]_vars

\* A raw graph without nodes, without edges, or without a visible node.
Degenerate(g) == NodeCount(g) = 0 \/ EdgeIds(g) = {} \/ VisibleSet(g) = {}

\* C18: degenerate inputs are not errors.  A filter applied to a raw graph
\* with zero nodes, with no edges or with no visible node completes normally
\* (MaxInsts(n) for every n >= 0 included), so does the materialisation, and
\* with no visible node left the materialised graph is empty.
C18_DegenerateInputsComplete ==
    [][(Degenerate(G) /\ ~panicked) =>
          /\ ~panicked'
          /\ last'.output.kind # "Panic"
          /\ VisibleSet(orig_graph') = {} =>
                ToVisible(orig_graph') = [nodes |-> <<>>, edges |-> <<>>]]_vars

\* C19: filter application is all-or-nothing.  When a filter fails, the flags
\* of the raw graph are those from before that filter started, and the filter
\* chain is the one from before the edit that was being applied.
C19_AllOrNothing ==
    [][(panicked' /\ ~panicked) =>
          /\ orig_graph'.nodes = G.nodes
          /\ filters_state'.filter_chain = filters_state'.prev_filter_chain]_vars

\* C20: whatever the filters hid before, a reset followed by a render with no
\* filter in between yields a visible graph with every node and every edge of
\* the raw graph: all nodes are visible, and each raw edge appears once, as a
\* Direct edge between the same two nodes; there is no Indirect edge.
C20_ResetThenRenderIsWhole ==
    [][(last.kind = "Reset" /\ last'.kind = "Render") =>
          LET v == visible_graph'
          IN /\ \A i \in NodeIds(G) : ~Hidden(i)
             /\ Len(v.nodes) = NodeCount(G)
             /\ {v.nodes[k].idx : k \in DOMAIN v.nodes} = NodeIds(G)
             /\ Len(v.edges) = Cardinality(EdgeIds(G))
             /\ \A k \in DOMAIN v.edges : ~v.edges[k].indirect
             /\ \A e \in EdgeIds(G) :
                   \E k \in DOMAIN v.edges :
                      /\ v.edges[k].path = <<e>>
                      /\ v.nodes[v.edges[k].source + 1].idx = G.edges[e].source
                      /\ v.nodes[v.edges[k].target + 1].idx = G.edges[e].target]_vars

\* A render after a reset that made hidden nodes visible again, of a raw
\* graph with at least three nodes and two edges.
C20_Witness ==
    /\ Rendered
    /\ was_reset
    /\ NodeCount(G) >= 3
    /\ Cardinality(EdgeIds(G)) >= 2
    /\ Len(visible_graph.edges) = Cardinality(EdgeIds(G))

ReversePairs == {<<visible_graph.nodes[k].idx, k - 1>> : k \in DOMAIN visible_graph.nodes}

\* C23: the nodes of the visible graph are exactly the raw nodes whose flag is
\* true: each of them appears exactly once and no hidden node appears; the
\* reverse map is a bijection between the visible raw nodes and the indices
\* of the visible graph.
C23_VisibleNodeSet ==
    Rendered =>
        /\ \A i \in NodeIds(G) :
              Cardinality({k \in DOMAIN visible_graph.nodes : visible_graph.nodes[k].idx = i})
                 = IF Hidden(i) THEN 0 ELSE 1
        /\ \A k \in DOMAIN visible_graph.nodes : visible_graph.nodes[k].idx \in NodeIds(G)
        /\ {pair[1] : pair \in ReversePairs} = {i \in NodeIds(G) : ~Hidden(i)}
        /\ {pair[2] : pair \in ReversePairs} = 0..Len(visible_graph.nodes) - 1
        /\ \A p \in ReversePairs, q \in ReversePairs : (p[1] = q[1]) <=> (p[2] = q[2])

\* A rendered graph in which a visible node follows a hidden one, so that its
\* visible index differs from its raw index.
C23_Witness ==
    /\ Rendered
    /\ Len(visible_graph.nodes) >= 2
    /\ \E pair \in ReversePairs : pair[1] # pair[2]

\* The hidden raw nodes with an edge into i, and those with an edge from i.
HiddenParentsOf(i) ==
    {p \in NodeIds(G) : Hidden(p) /\ \E e \in EdgeIds(G) :
                                        G.edges[e].source = p /\ G.edges[e].target = i}

HiddenChildrenOf(i) ==
    {c \in NodeIds(G) : Hidden(c) /\ \E e \in EdgeIds(G) :
                                        G.edges[e].source = i /\ G.edges[e].target = c}

DirectFor(e) ==
    {k \in DOMAIN visible_graph.edges :
        ~visible_graph.edges[k].indirect /\ visible_graph.edges[k].path = <<e>>}

\* C25: every raw edge whose two endpoints are visible appears exactly once
\* as a Direct edge, between the visible nodes of its endpoints; a raw edge
\* with a hidden endpoint appears as no Direct edge, and every Direct edge
\* stands for a raw edge.
C25_DirectEdges ==
    Rendered =>
        /\ \A e \in EdgeIds(G) :
              /\ Cardinality(DirectFor(e))
                    = IF Hidden(G.edges[e].source) \/ Hidden(G.edges[e].target) THEN 0 ELSE 1
              /\ \A k \in DirectFor(e) :
                    /\ visible_graph.nodes[visible_graph.edges[k].source + 1].idx = G.edges[e].source
                    /\ visible_graph.nodes[visible_graph.edges[k].target + 1].idx = G.edges[e].target
        /\ \A k \in DOMAIN visible_graph.edges :
              ~visible_graph.edges[k].indirect => \E e \in EdgeIds(G) : k \in DirectFor(e)

\* A rendered graph with a Direct edge between nodes whose visible indices
\* differ from their raw ones, and a raw edge that is dropped.
C25_Witness ==
    /\ Rendered
    /\ \E e \in EdgeIds(G) : Hidden(G.edges[e].target) /\ ~Hidden(G.edges[e].source)
    /\ \E e \in EdgeIds(G) : \E k \in DirectFor(e) :
          visible_graph.edges[k].source # G.edges[e].source

\* The raw graph's own counts: one parent per incoming edge, one child per
\* outgoing edge.
RawParents(i) == Cardinality({e \in DOMAIN G.edges : G.edges[e].target = i})

RawChildren(i) == Cardinality({e \in DOMAIN G.edges : G.edges[e].source = i})

PassThrough(i) == RawParents(i) = 1 /\ RawChildren(i) = 1

Marked(many) == last.kind = "SetDisabled" /\ last.disablers = many

\* C27: under the Smart disabler an e-node or a given equality is disabled
\* exactly when it has no children or one parent and one child, and a
\* transitive equality exactly when it has no parents or one parent and one
\* child, the parents and children being those of the raw graph.
C27_SmartPolicy ==
    Marked({"Smart"}) =>
        \A i \in NodeIds(G) :
            /\ G.nodes[i].kind \in {"ENode", "GivenEquality"} =>
                  (G.nodes[i].disabled <=> (RawChildren(i) = 0 \/ PassThrough(i)))
            /\ G.nodes[i].kind = "TransEquality" =>
                  (G.nodes[i].disabled <=> (RawParents(i) = 0 \/ PassThrough(i)))

\* A transitive equality without parents feeds an e-node that passes on to one
\* child: both are disabled, while a transitive equality with two parents is not;
\* a filter has hidden part of the graph before.
C27_Witness ==
    /\ Marked({"Smart"})
    /\ \E i \in NodeIds(G) : Hidden(i)
    /\ \E i, j \in NodeIds(G) :
          /\ G.nodes[i].kind = "TransEquality" /\ RawParents(i) = 0 /\ RawChildren(i) > 0
          /\ G.nodes[i].disabled
          /\ G.nodes[j].kind = "ENode" /\ PassThrough(j) /\ G.nodes[j].disabled
    /\ \E i \in NodeIds(G) :
          G.nodes[i].kind = "TransEquality" /\ RawParents(i) = 2 /\ ~G.nodes[i].disabled

DisabledSet == {i \in NodeIds(G) : G.nodes[i].disabled}

OfKind(kinds) == {i \in NodeIds(G) : G.nodes[i].kind \in kinds}

\* C28: a node is disabled exactly when the predicate of at least one active
\* disabler holds for it, so no node is disabled when none is active; ENodes
\* alone disables exactly the e-nodes, GivenEqualities alone exactly the given
\* equalities, AllEqualities alone exactly the given and the transitive
\* equalities.
C28_AnyActiveDisabler ==
    last.kind = "SetDisabled" =>
        /\ DisabledSet = {i \in NodeIds(G) : \E d \in last.disablers : Disable(d, G, i)}
        /\ last.disablers = {} => DisabledSet = {}
        /\ last.disablers = {"ENodes"} => DisabledSet = OfKind({"ENode"})
        /\ last.disablers = {"GivenEqualities"} => DisabledSet = OfKind({"GivenEquality"})
        /\ last.disablers = {"AllEqualities"} =>
              DisabledSet = OfKind({"GivenEquality", "TransEquality"})

\* ENodes and GivenEqualities are active together: the e-node and the given
\* equality of the graph are disabled, each by one of the two only, and the
\* transitive equality is not.
C28_Witness ==
    /\ Marked({"ENodes", "GivenEqualities"})
    /\ OfKind({"ENode"}) # {} /\ OfKind({"GivenEquality"}) # {} /\ OfKind({"TransEquality"}) # {}
    /\ DisabledSet = OfKind({"ENode", "GivenEquality"})

\* C29: whatever disablers are active and whatever the graph, no instantiation
\* is disabled.
C29_InstantiationsStayEnabled ==
    last.kind = "SetDisabled" => DisabledSet \cap OfKind({"Instantiation"}) = {}

\* Every disabler is active on a graph where an instantiation has no children,
\* another has one parent and one child, and an e-node is disabled.
C29_Witness ==
    /\ Marked(Disablers)
    /\ \E i, j \in OfKind({"Instantiation"}) :
          /\ RawChildren(i) = 0 /\ ~G.nodes[i].disabled
          /\ PassThrough(j) /\ ~G.nodes[j].disabled
    /\ DisabledSet # {}

Defined(deps) == {k \in 1..Len(deps) : deps[k].has_to}

Sourced(deps) == {k \in Defined(deps) : deps[k].from > 0}

FirstOf(deps, line) ==
    CHOOSE k \in Defined(deps) :
        /\ deps[k].to = line
        /\ \A other \in Defined(deps) : deps[other].to = line => k <= other

\* One node per distinct defined target, holding the data of the first entry
\* with that target, visible, its counts being its degrees.
NodesAsListed(g, deps) ==
    /\ {g.nodes[i].line_nr : i \in NodeIds(g)} = {deps[k].to : k \in Defined(deps)}
    /\ \A i, j \in NodeIds(g) : g.nodes[i].line_nr = g.nodes[j].line_nr => i = j
    /\ \A i \in NodeIds(g) :
          /\ g.nodes[i].cost = deps[FirstOf(deps, g.nodes[i].line_nr)].cost
          /\ g.nodes[i].visible
          /\ g.nodes[i].child_count =
                Cardinality({e \in DOMAIN g.edges : g.edges[e].source = i})
          /\ g.nodes[i].parent_count =
                Cardinality({e \in DOMAIN g.edges : g.edges[e].target = i})

\* The edges from line from to line to.
EdgesOfLines(g, from, to) ==
    {e \in DOMAIN g.edges : /\ g.nodes[g.edges[e].source].line_nr = from
                            /\ g.nodes[g.edges[e].target].line_nr = to}

\* One edge per entry of the set, from the entry's source to its target, and
\* no other edge.
EdgesAsListed(g, deps, entries) ==
    /\ Len(g.edges) = Cardinality(entries)
    /\ \A k \in entries :
          Cardinality(EdgesOfLines(g, deps[k].from, deps[k].to)) =
            Cardinality({other \in entries : /\ deps[other].from = deps[k].from
                                              /\ deps[other].to = deps[k].to})

\* C30: the graph built from a dependency list has one node per distinct
\* defined target with the first entry's data, one edge source -> target for
\* each entry with a defined target and a source above 0 and none for a source
\* of 0, every node visible, and the stored child and parent counts equal to
\* the out- and in-degrees.
C30_BuiltFromDependencies ==
    /\ NodesAsListed(fresh_graph, parser)
    /\ EdgesAsListed(fresh_graph, parser, Sourced(parser))

\* What the built graph does satisfy: the entries that give an edge are those
\* whose source is itself the target of some entry.
BuiltFromResolvedDependencies ==
    /\ NodesAsListed(fresh_graph, parser)
    /\ EdgesAsListed(fresh_graph, parser,
                     {k \in Sourced(parser) :
                         \E other \in Defined(parser) : parser[other].to = parser[k].from})

\* The entries whose source is a line no entry has as its target: add_edge
\* finds no node for it.
Unresolved(deps) ==
    {k \in Sourced(deps) : \A other \in Defined(deps) : deps[other].to # deps[k].from}

\* C31: a dependency whose source has no node makes construction fail, so no
\* graph is built with that dependency's edge left out.
C31_UnresolvedFailsLoudly == Unresolved(parser) # {} => panicked

\* Some edge out of i leads back to i: a self-loop or a longer cycle.
OnCycle(i) == \E e \in OutEdges(G, i) : Reaches(G.edges[e].target, i)

\* C32: the graph built from any dependency list the builder accepts has no
\* directed cycle and no self-loop.
C32_BuiltGraphIsDag == \A i \in NodeIds(G) : ~OnCycle(i)

EnabledDisablers(state) ==
    {entry.disabler : entry \in {state.disabler_chain[k] : k \in DOMAIN state.disabler_chain}
                                 \cap [disabler : Disablers, enabled : {TRUE}]}

\* The sequence is a reset, one ApplyFilter per filter of the chain in the
\* chain's order, and a render.
IsRerender(body, chain) ==
    /\ Len(body) = Len(chain) + 2
    /\ body[1] = [kind |-> "ResetGraph", payload |-> {}]
    /\ \A j \in 1..Len(chain) : body[j + 1] = [kind |-> "ApplyFilter", payload |-> {chain[j]}]
    /\ body[Len(body)] = [kind |-> "RenderGraph", payload |-> {}]

\* What a handler sent is nothing, or a re-render for the chain of state, with
\* the enabled disablers of state in front exactly when the disablers changed.
IsRequest(batch, state, disablers_changed) ==
    IF disablers_changed
    THEN /\ batch # <<>>
         /\ Head(batch) = [kind |-> "SetDisabled", payload |-> EnabledDisablers(state)]
         /\ IsRerender(Tail(batch), state.filter_chain)
    ELSE batch = <<>> \/ IsRerender(batch, state.filter_chain)

\* C33: whatever the sidebar sends is one sequence ResetGraph, an ApplyFilter
\* for each filter of the current chain in the chain's order, RenderGraph; a
\* single SetDisabled with exactly the enabled disablers comes first when the
\* disablers changed, as they do for a new sidebar and for a toggled disabler.
C33_RerenderSequence ==
    /\ IsRequest(msgs, filters_state, TRUE)
    /\ [][IsRequest(msgs', filters_state',
                    filters_state'.disabler_chain # filters_state.disabler_chain)]_vars

\* A second disabler is switched on under a chain of three filters that an
\* added filter ends: six messages are sent, the disablers first.
C33_Witness ==
    /\ Len(filters_state.filter_chain) = 3
    /\ filters_state.filter_chain[3] \in EditedFilters
    /\ last.kind = "ToggleDisabler"
    /\ Len(msgs) = 6
    /\ Head(msgs) = [kind |-> "SetDisabled", payload |-> {"Smart", "ENodes"}]
    /\ msgs[5] = [kind |-> "ApplyFilter", payload |-> EditedFilters]

\* C37: from a state whose applied chain is the current chain C and whose
\* previous chain P differs from C, UndoOperation makes P the current and the
\* applied chain and C the previous one; a second UndoOperation therefore gives
\* C back as current and applied chain with P as the previous one.
C37_UndoSwaps ==
    [][(/\ last'.kind = "UndoOperation"
        /\ filters_state.applied_filter_chain = filters_state.filter_chain
        /\ filters_state.prev_filter_chain # filters_state.filter_chain) =>
          /\ filters_state'.filter_chain = filters_state.prev_filter_chain
          /\ filters_state'.applied_filter_chain = filters_state.prev_filter_chain
          /\ filters_state'.prev_filter_chain = filters_state.filter_chain
          /\ filters_state'.applied_filter_chain = filters_state'.filter_chain
          /\ filters_state'.prev_filter_chain # filters_state'.filter_chain]_vars

\* An undo has just put the default chain back after a filter had been added:
\* the chain with the added filter is the previous one.
C37_Witness ==
    /\ last.kind = "UndoOperation"
    /\ filters_state.filter_chain = DEFAULT_FILTER_CHAIN
    /\ filters_state.applied_filter_chain = DEFAULT_FILTER_CHAIN
    /\ Len(filters_state.prev_filter_chain) = 3
    /\ msgs # <<>>

\* The index, when set, is one of a filter of the current chain.
ValidIdx(idx) == idx \subseteq ChainIdxs

OneAtMost == filters_state.selected_filter = {} \/ filters_state.edit_filter = {}

\* C38: in every state of the sidebar selected_filter and edit_filter, when
\* set, are indices of filters of the current chain, and they are never both
\* set.
C38_IndicesValid ==
    /\ ValidIdx(filters_state.selected_filter)
    /\ ValidIdx(filters_state.edit_filter)
    /\ OneAtMost

\* The step handles AddFilter with edit = true: the added filter is being
\* edited.
AddsForEdit == last'.kind = "AddFilter" /\ filters_state'.edit_filter # {}

\* The step's handler calls send_updates.
CallsSendUpdates ==
    \/ last'.kind \in {"ResetOperations", "UndoOperation", "Delete", "EndEdit"}
    \/ last'.kind = "AddFilter" /\ ~AddsForEdit
    \/ last'.kind = "Drag" /\ ~filters_state'.dragging

\* send_updates sends nothing and keeps the applied chain when the chain it
\* finds is the applied one, and otherwise sends one re-render for that chain
\* and makes it the applied one.
SendUpdatesInStep ==
    CallsSendUpdates =>
        IF filters_state'.filter_chain = filters_state.applied_filter_chain
        THEN msgs' = <<>> /\ filters_state'.applied_filter_chain = filters_state.applied_filter_chain
        ELSE /\ IsRerender(msgs', filters_state'.filter_chain)
             /\ filters_state'.applied_filter_chain = filters_state'.filter_chain

\* C39: send_updates sends nothing and changes nothing when the chain is the
\* applied one, and otherwise sends one re-render and leaves the applied chain
\* equal to the chain; after every handled message other than AddFilter with
\* edit = true the applied chain equals the chain.
C39_AppliedInStep ==
    [][/\ SendUpdatesInStep
       /\ ~AddsForEdit => filters_state'.applied_filter_chain = filters_state'.filter_chain]_vars

\* The visible graph has a path of at most k edges, Direct or Indirect, from
\* its node a to its node b (indices of the visible graph).
RECURSIVE VisiblePathWithin(_, _, _)
VisiblePathWithin(a, b, k) ==
    \/ a = b
    \/ k > 0 /\ \E e \in DOMAIN visible_graph.edges :
                  /\ visible_graph.edges[e].source = a
                  /\ VisiblePathWithin(visible_graph.edges[e].target, b, k - 1)

\* The raw node D is reachable from the raw node A in the visible graph.
VisibleReaches(A, D) ==
    VisiblePathWithin(VisibleIndex(G, A), VisibleIndex(G, D), Len(visible_graph.nodes))

\* C34: after to_visible on a DAG, for any two distinct visible nodes A and D
\* and any set of hidden nodes, D is reachable from A in the visible graph over
\* Direct and Indirect edges exactly when D is reachable from A in the raw
\* graph.
C34_ReachabilityPreserved ==
    Rendered =>
        \A pair \in VisiblePairs :
            VisibleReaches(pair[1], pair[2]) <=> Reaches(pair[1], pair[2])

\* A reaches D in the raw graph through a hidden node and through a visible
\* one, the visible graph has no edge A -> D and still joins them, and some
\* other pair of visible nodes is joined in neither graph.
C34_Witness ==
    /\ Rendered
    /\ \E pair \in VisiblePairs :
          /\ Reaches(pair[1], pair[2])
          /\ \E h \in NodeIds(G) \ {pair[1], pair[2]} :
                Hidden(h) /\ Reaches(pair[1], h) /\ Reaches(h, pair[2])
          /\ IndirectEdges(pair[1], pair[2]) = {}
          /\ DirectEdgesBetween(pair[1], pair[2]) = {}
          /\ VisibleReaches(pair[1], pair[2])
    /\ \E pair \in VisiblePairs :
          ~Reaches(pair[1], pair[2]) /\ ~VisibleReaches(pair[1], pair[2])

\* The raw node of a node of the visible graph.
RawOf(v) == visible_graph.nodes[v + 1].idx

\* path is a raw path from A to D over hidden nodes: two raw edges or more,
\* each ending where the next starts.
WellFormedPath(path, A, D) ==
    /\ Len(path) >= 2
    /\ \A k \in DOMAIN path : path[k] \in EdgeIds(G)
    /\ G.edges[path[1]].source = A
    /\ G.edges[path[Len(path)]].target = D
    /\ \A k \in 1..Len(path) - 1 :
          /\ G.edges[path[k]].target = G.edges[path[k + 1]].source
          /\ Hidden(G.edges[path[k]].target)

\* C35: every Indirect edge A -> D of the visible graph joins two visible
\* nodes and carries a path of at least two raw edges that starts at A's raw
\* node, ends at D's raw node, is connected, and has hidden intermediate
\* nodes only.
C35_IndirectPathWellFormed ==
    Rendered =>
        \A k \in DOMAIN visible_graph.edges :
            visible_graph.edges[k].indirect =>
                /\ ~Hidden(RawOf(visible_graph.edges[k].source))
                /\ ~Hidden(RawOf(visible_graph.edges[k].target))
                /\ WellFormedPath(visible_graph.edges[k].path,
                                  RawOf(visible_graph.edges[k].source),
                                  RawOf(visible_graph.edges[k].target))

\* The rendered graph has an Indirect edge over two hidden nodes and another
\* over one.
C35_Witness ==
    /\ Rendered
    /\ \E k \in DOMAIN visible_graph.edges :
          visible_graph.edges[k].indirect /\ Len(visible_graph.edges[k].path) = 3
    /\ \E k \in DOMAIN visible_graph.edges :
          visible_graph.edges[k].indirect /\ Len(visible_graph.edges[k].path) = 2

Reconnected == last.kind = "RetainVisible"

\* The original node of a node of visible_graph.
OldOf(v) == visible_graph.nodes[v + 1].orig_graph_idx

\* The edges of visible_graph of one type from the original node u to v.
TypedEdges(edge_type, u, v) ==
    {k \in DOMAIN visible_graph.edges :
        /\ visible_graph.edges[k].edge_type = edge_type
        /\ OldOf(visible_graph.edges[k].source) = u
        /\ OldOf(visible_graph.edges[k].target) = v}

\* The reachability relation from the visible nodes with a missing (hidden)
\* child to the visible nodes with a missing parent.
MissingReach ==
    {pair \in VisiblePairs :
        /\ \E c \in Children(G, pair[1]) : Hidden(c)
        /\ \E p \in Parents(G, pair[2]) : Hidden(p)
        /\ Reaches(pair[1], pair[2])}

\* Its transitive reduction: the relation is transitive, so a pair is implied
\* by others exactly when a third node splits it in two.
MissingReachReduced ==
    {pair \in MissingReach :
        ~\E w \in VisibleSet(G) : <<pair[1], w>> \in MissingReach /\ <<w, pair[2]>> \in MissingReach}

\* b is reached from a over at least one Indirect edge of visible_graph other
\* than the edge k, in n edges at most.
RECURSIVE IndirectChain(_, _, _, _)
IndirectChain(a, b, k, n) ==
    n > 0 /\ \E e \in DOMAIN visible_graph.edges \ {k} :
                /\ visible_graph.edges[e].edge_type = "Indirect"
                /\ visible_graph.edges[e].source = a
                /\ \/ visible_graph.edges[e].target = b
                   \/ IndirectChain(visible_graph.edges[e].target, b, k, n - 1)

\* C36: after retain_visible_nodes_and_reconnect, visible_graph holds exactly
\* the visible nodes and the direct edges between them, and Indirect edges that
\* are the transitive reduction of the reachability relation from visible
\* nodes with a missing child to visible nodes with a missing parent; two
\* distinct visible nodes are joined in visible_graph exactly when they are
\* joined in the original graph, and no Indirect edge is implied by a chain of
\* other Indirect edges.
C36_RetainAndReconnect ==
    Reconnected =>
        /\ Len(visible_graph.nodes) = Cardinality(VisibleSet(G))
        /\ \A v \in DOMAIN visible_graph.nodes :
              /\ OldOf(v - 1) \in VisibleSet(G)
              /\ VisibleIndex(G, OldOf(v - 1)) = v - 1
              /\ visible_graph.nodes[v] = G.nodes[OldOf(v - 1)]
        /\ \A k \in DOMAIN visible_graph.edges :
              /\ visible_graph.edges[k].source \in 0..Len(visible_graph.nodes) - 1
              /\ visible_graph.edges[k].target \in 0..Len(visible_graph.nodes) - 1
        /\ \A u \in VisibleSet(G), v \in VisibleSet(G) :
              /\ Cardinality(TypedEdges("Direct", u, v)) = Cardinality(EdgesBetween(u, v))
              /\ Cardinality(TypedEdges("Indirect", u, v))
                    = IF <<u, v>> \in MissingReachReduced THEN 1 ELSE 0
        /\ \A pair \in VisiblePairs :
              VisibleReaches(pair[1], pair[2]) <=> Reaches(pair[1], pair[2])
        /\ \A k \in DOMAIN visible_graph.edges :
              visible_graph.edges[k].edge_type = "Indirect" =>
                  ~\E m \in 0..Len(visible_graph.nodes) - 1 :
                      /\ m # visible_graph.edges[k].target
                      /\ IndirectChain(visible_graph.edges[k].source, m, k, Len(visible_graph.nodes))
                      /\ IndirectChain(m, visible_graph.edges[k].target, k, Len(visible_graph.nodes))

\* Three visible nodes u, m, v with hidden nodes between u and m and between m
\* and v: the reconnected graph has Indirect edges u -> m and m -> v and none
\* u -> v, and a Direct edge next to them.
C36_Witness ==
    /\ Reconnected
    /\ \E u \in VisibleSet(G), m \in VisibleSet(G), v \in VisibleSet(G) :
          /\ {<<u, m>>, <<m, v>>, <<u, v>>} \subseteq MissingReach
          /\ TypedEdges("Indirect", u, m) # {}
          /\ TypedEdges("Indirect", m, v) # {}
          /\ TypedEdges("Indirect", u, v) = {}
    /\ \E k \in DOMAIN visible_graph.edges : visible_graph.edges[k].edge_type = "Direct"

\* The ids whose result of get_term differs between two maps.
Changed(before, after) == {id \in TermIds : GetTerm(after, id) # GetTerm(before, id)}

\* C40: after any sequence of register_term calls, get_term(id) is the TermIdx
\* of the latest register_term with the same namespace and id number, and None
\* when there was none; a call of register_term changes the result of get_term
\* for no id but its own.
C40_LatestRegistration ==
    /\ [](\A id \in TermIds : GetTerm(parser, id) = last.latest[id])
    /\ [][Changed(parser, parser') \subseteq {id \in TermIds : last'.latest[id] # last.latest[id]}]_vars

\* The latest call registered an id again with another TermIdx; `name#` and
\* `name#0` of one namespace are registered with different terms, and an id
\* never registered lies within the vector of its namespace.
C40_Witness ==
    /\ last.kind = "register_term"
    /\ last.replaced
    /\ \E namespace \in Namespaces :
          /\ GetTerm(parser, Parse(namespace, {})) = {0}
          /\ GetTerm(parser, Parse(namespace, {0})) = {1}
    /\ \E id \in TermIds :
          /\ GetTerm(parser, id) = {}
          /\ \E vec \in GetVec(parser, id.namespace) : Order(id) < Len(vec)

====
